---- MODULE Spec2Model ----
(***************************************************************************)
(* Nudge delivery and reconciliation engine of wabackend-brain.           *)
(*                                                                         *)
(* The store (conversations, nudges, messages, contacts, integrations,    *)
(* user_preferences) is the state.  Every handler of the source is an     *)
(* action.  The provider (WhatsApp Cloud API) and the decision component  *)
(* are the environment: their answers are drawn nondeterministically.    *)
(*                                                                         *)
(* Several specifications share the definitions; each exercises one group *)
(* of handlers and keeps the rest of the state fixed:                     *)
(*   SpecSmart    send_smart_nudge                                         *)
(*   SpecSend     send_whatsapp_message and its credentials                *)
(*   SpecTick     scheduler tick, cron tick and manual send as workers    *)
(*   SpecTickFaults  the two ticks with failing store calls                *)
(*   SpecTickLive the two ticks, every step of them taken in the end       *)
(*   SpecTickSeq  the two ticks, one at a time, with failing store calls   *)
(*   SpecNudge    schedule_nudge and the dashboard's nudge routes          *)
(*   SpecOverlap  two overlapping calls of schedule_nudge                  *)
(*   SpecAuto     approval, schedule_nudge and the two ticks               *)
(*   SpecClose    a conversation closed while its nudge is dispatched      *)
(*   SpecRetry    retry_message                                            *)
(*   SpecRetryPair  two retry_message requests for one message             *)
(*   SpecHook     POST /webhooks/whatsapp (status receipts, inbound)      *)
(*   SpecHookFaults  the same with failing store calls                     *)
(*   SpecInbound  two inbound messages of one new sender, handled at once  *)
(*   SpecRace     status receipts arriving during a dispatch               *)
(*   SpecReceipt  status receipts for conversations in every status        *)
(*   SpecVerify   GET /webhooks/whatsapp                                   *)
(***************************************************************************)
EXTENDS Integers, Sequences, FiniteSets, TLC

VARIABLES
    now,            \* datetime.now(timezone.utc), in hours
    conversations,  \* table conversations: sequence of rows, id = index
    nudges,         \* table nudges: sequence of rows, id = index
    messages,       \* table messages: sequence of rows, id = index
    contacts,       \* table contacts: sequence of rows, id = index
    integration,    \* the account's row of table integrations (or NoRow)
    prefs,          \* the account's row of table user_preferences (or NoRow)
    env,            \* settings: WHATSAPP_ACCESS_TOKEN, WHATSAPP_PHONE_NUMBER_ID,
                    \* WEBHOOK_VERIFY_TOKEN
    pc,             \* per worker: where the coroutine is suspended
    queue,          \* per worker: the due nudges of its query still to process
    held,           \* per worker: the outcome of the awaited send
    last,           \* the outcome of the handler that completed last (observer)
    sends           \* per nudge id: provider network calls made for it (observer)

vars == <<now, conversations, nudges, messages, contacts, integration, prefs,
          env, pc, queue, held, last, sends>>

(***************************************************************************)
(* Values                                                                  *)
(***************************************************************************)
\* Python None for strings and rows.
NULL == "NULL"
NoRow == [absent |-> TRUE]
\* Optional values of other types: None is <<>>, a value v is <<v>>.
None == <<>>
Some(v) == <<v>>

\* Python truthiness of an Optional[str]: None and "" are falsy.
Truthy(s) == s # NULL /\ s # ""
\* s.strip() == "" for the strings of the model (" " is whitespace only).
StripEmpty(s) == s = "" \/ s = " "
\* a or b
Or(a, b) == IF Truthy(a) THEN a ELSE b

\* The instants of the model (hours).  24 - 0 and 25 - 1 lie on the window's
\* boundary, 24 - 1 just inside.
TimePoints == {0, 1, 24, 25}
MaxMsgs == 2

(***************************************************************************)
(* delivery_engine.py: errors, payloads, send_whatsapp_message             *)
(***************************************************************************)
MISSING_ENV_VAR == "missing_env_var"
NETWORK_ERROR == "network_error"
API_ERROR == "api_error"

DEFAULT_TEMPLATE_NAME == "ai_followup"
DEFAULT_TEMPLATE_PARAM_NAME == "followup_message"
DEFAULT_TEMPLATE_LANGUAGE == "en"
FALLBACK_TEMPLATE_NAME == "hello_world"
WINDOW_HOURS == 24

DeliveryError(t, m, sc) == [error_type |-> t, message |-> m, status_code |-> sc]

\* The texts a provider or transport error can carry.  The second and the
\* fourth hold the provider's template-not-found code.
ErrorTexts == {"timeout", "timeout 132001", "{error: 131000}", "{error: 132001}",
               "<html>"}
Has132001(text) == text \in {"timeout 132001", "{error: 132001}"}

\* DeliveryError._format_message: prefix, status and message of str(e).
FormatMessage(e) ==
    IF e.error_type = MISSING_ENV_VAR
    THEN <<"Missing environment variable: ", None, e.message>>
    ELSE IF e.error_type = NETWORK_ERROR
    THEN <<"Network error: ", None, e.message>>
    ELSE IF e.error_type = API_ERROR
    THEN <<"API error (HTTP ", e.status_code, e.message>>
    ELSE <<"", None, e.message>>

\* "132001" in str(e): no prefix and no HTTP status of the model holds it.
Str132001(e) == Has132001(FormatMessage(e)[3])

BuildTemplatePayload(phone, name, parameters) ==
    [to |-> phone, type |-> "template", content |-> name,
     language |-> DEFAULT_TEMPLATE_LANGUAGE,
     components |-> IF parameters # <<>> THEN parameters ELSE <<>>]

BuildTextPayload(phone, body) ==
    [to |-> phone, type |-> "text", content |-> body,
     language |-> NULL, components |-> <<>>]

\* What the network call can answer: a transport failure, or an HTTP status
\* with a body.  A success body is a JSON object ("json", with messages and
\* contacts; "json_nocontact", without contacts; "json_empty", without
\* either), JSON of another shape ("json_list") or no JSON ("<html>").
TransportFailure(text) == [transport |-> FALSE, status |-> 0, body |-> text, id |-> ""]
HttpAnswer(st, body, id) == [transport |-> TRUE, status |-> st, body |-> body, id |-> id]
IsSuccess(r) == r.status >= 200 /\ r.status <= 299

SendResult(mid, wa) == [message_id |-> mid, recipient_wa_id |-> wa, status |-> "queued"]

Raise(calls, e) == [calls |-> calls, ok |-> FALSE, result |-> None, error |-> Some(e)]
Return(calls, r) == [calls |-> calls, ok |-> TRUE, result |-> Some(r), error |-> None]

\* An exception that is not a DeliveryError.
ATTRIBUTE_ERROR == "AttributeError"

\* response.json() and the extraction of the ids.  "json_list" is a body
\* that is JSON but no object: response_data.get raises AttributeError.
ParseOutcome(calls, r) ==
    IF r.body = "json_list"
    THEN Raise(calls, [error_type |-> ATTRIBUTE_ERROR, message |-> "no attribute get",
                       status_code |-> None])
    ELSE IF r.body \notin {"json", "json_nocontact", "json_empty"}
    THEN Raise(calls, DeliveryError(NETWORK_ERROR, "Failed to parse response", None))
    ELSE Return(calls,
           SendResult(IF r.body = "json_empty" THEN "unknown" ELSE r.id,
                      IF r.body = "json" THEN "wa_id" ELSE NULL))

ClassifyResponse(calls, r) ==
    IF ~r.transport
    THEN Raise(calls, DeliveryError(NETWORK_ERROR, r.body, None))
    ELSE IF ~IsSuccess(r)
    THEN Raise(calls, DeliveryError(API_ERROR, r.body, Some(r.status)))
    ELSE ParseOutcome(calls, r)

\* The check of the token without the strip.
TokenUnset(token) == ~Truthy(token)
\* not token or token.strip() == ""
TokenMissing(token) == ~Truthy(token) \/ StripEmpty(token)

send_whatsapp_message(phone, msg_type, content, access_token, phone_number_id, template_parameters, r) ==
    LET token == Or(access_token, env.token)
        phone_id == Or(phone_number_id, env.phone_id)
        payload == IF msg_type = "template"
                   THEN BuildTemplatePayload(phone, content, template_parameters)
                   ELSE BuildTextPayload(phone, content)
    IN  IF TokenMissing(token)
        THEN Raise(<<>>, DeliveryError(MISSING_ENV_VAR, "WHATSAPP_ACCESS_TOKEN", None))
        ELSE IF ~Truthy(phone_id)
        THEN Raise(<<>>, DeliveryError(MISSING_ENV_VAR, "WHATSAPP_PHONE_NUMBER_ID", None))
        ELSE ClassifyResponse(<<payload>>, r)

(***************************************************************************)
(* Rows of the store                                                       *)
(***************************************************************************)
\* Table messages.  retry_count and max_retries are set by no insert of the
\* source: None is the column left NULL, read back by .get(..., d) or d.
Message(conv, contact, direction, content, wamid, status, t) ==
    [conversation_id |-> conv, contact_id |-> contact, direction |-> direction,
     content |-> content, whatsapp_message_id |-> wamid, status |-> status,
     created_at |-> t, sent_at |-> None, delivered_at |-> None,
     read_at |-> None, failed_at |-> None,
     error_code |-> NULL, error_message |-> NULL,
     retry_count |-> None, max_retries |-> None]

\* select created_at ... eq(conversation_id) eq(direction, incoming)
\*   order(created_at, desc) limit(1): the created_at values it can return.
LastIncoming(msgs, conv) ==
    LET rows == {i \in DOMAIN msgs : msgs[i].conversation_id = conv
                                     /\ msgs[i].direction = "incoming"}
    IN  {msgs[i].created_at : i \in {j \in rows :
              \A k \in rows : msgs[k].created_at <= msgs[j].created_at}}

\* The window check with the boundary hour let in.
WithinWindowInclusive(t, last_msg_time) == (t - last_msg_time) <= WINDOW_HOURS

WithinWindow(t, last_msg_time) == (t - last_msg_time) < WINDOW_HOURS

\* The window check deciding on the stored rows whatever the lookup did.
CanSendTextUnguarded(msgs, t, conversation_id, lookup_fails) ==
    IF conversation_id = 0 THEN FALSE
    ELSE \E lt \in LastIncoming(msgs, conversation_id) : WithinWindow(t, lt)

\* delivery_engine.py 306-321: the window check.  lookup_fails is the store
\* query (or the parse of its timestamp) raising.
CanSendText(msgs, t, conversation_id, lookup_fails) ==
    IF lookup_fails THEN FALSE
    ELSE IF conversation_id = 0 THEN FALSE
    ELSE \E lt \in LastIncoming(msgs, conversation_id) : WithinWindow(t, lt)

NudgeContent(nudge) == Or(Or(nudge.approved_content, nudge.draft_content), "Hello!")

EMPTY_CONTENT_DEFAULT == "Hi! This is a follow-up message."

TemplateParams(content) ==
    <<[type |-> "text", parameter_name |-> DEFAULT_TEMPLATE_PARAM_NAME,
       text |-> IF ~Truthy(content) \/ StripEmpty(content)
                THEN EMPTY_CONTENT_DEFAULT ELSE content]>>

\* delivery_engine.py 359: the errors that start the fallback send.
TemplateNotFound(e) == e.status_code = Some(404) \/ Str132001(e)

\* The template branch with a fallback that keeps the primary's parameters.
SendTemplateFallbackKeepsParams(phone, content, access_token, phone_number_id, rs) ==
    LET first == send_whatsapp_message(phone, "template", DEFAULT_TEMPLATE_NAME,
                     access_token, phone_number_id, TemplateParams(content), rs[1])
    IN  IF first.ok THEN first
        ELSE IF first.error[1].status_code = Some(404) \/ Str132001(first.error[1])
        THEN LET second == send_whatsapp_message(phone, "template",
                               FALLBACK_TEMPLATE_NAME, access_token,
                               phone_number_id, TemplateParams(content), rs[2])
             IN  [second EXCEPT !.calls = first.calls \o second.calls]
        ELSE first

\* delivery_engine.py 333-368: the template branch.  rs are the provider's
\* answers, one per network call.
SendTemplateWithFallback(phone, content, access_token, phone_number_id, rs) ==
    LET first == send_whatsapp_message(phone, "template", DEFAULT_TEMPLATE_NAME,
                     access_token, phone_number_id, TemplateParams(content), rs[1])
    IN  IF first.ok THEN first
        ELSE IF TemplateNotFound(first.error[1])
        THEN LET second == send_whatsapp_message(phone, "template",
                               FALLBACK_TEMPLATE_NAME, access_token,
                               phone_number_id, <<>>, rs[2])
             IN  [second EXCEPT !.calls = first.calls \o second.calls]
        ELSE first

send_smart_nudge(msgs, t, nudge, contact_phone, access_token, phone_number_id, lookup_fails, rs) ==
    LET content == NudgeContent(nudge)
    IN  IF CanSendText(msgs, t, nudge.conversation_id, lookup_fails)
        THEN send_whatsapp_message(contact_phone, "text", content, access_token,
                                   phone_number_id, <<>>, rs[1])
        ELSE SendTemplateWithFallback(contact_phone, content, access_token,
                                      phone_number_id, rs)

\* The provider's answers to the calls of one send_smart_nudge: every pair
\* whose second answer is only drawn when a second call is made.
Answers(R, msgs, t, nudge, phone, tok, pid, lookup_fails) ==
    {rs \in R \X R :
        \/ Len(send_smart_nudge(msgs, t, nudge, phone, tok, pid, lookup_fails, rs).calls) = 2
        \/ rs[2] = rs[1]}

(***************************************************************************)
(* Workers and observers                                                   *)
(***************************************************************************)
Workers ==
    {"sched", "cron", "manual", "hook", "hook2", "retry", "retry2", "tool1", "tool2"}
NoOp == [op |-> "none"]
NoOutcome == [calls |-> <<>>, ok |-> FALSE, result |-> None, error |-> None]

IdleWorkers ==
    /\ pc = [w \in Workers |-> "idle"]
    /\ queue = [w \in Workers |-> <<>>]
    /\ held = [w \in Workers |-> NoOutcome]

NoEnv == [token |-> NULL, phone_id |-> NULL, verify_token |-> NULL]

(***************************************************************************)
(* SpecSmart: send_smart_nudge against a changing store and clock          *)
(***************************************************************************)
SmartResponses ==
    {TransportFailure("timeout"), TransportFailure("timeout 132001"),
     HttpAnswer(200, "json", "wamid.1"), HttpAnswer(404, "<html>", ""), HttpAnswer(400, "{error: 132001}", ""),
     HttpAnswer(400, "{error: 131000}", "")}

FirstType(out) == IF out.calls = <<>> THEN "none" ELSE out.calls[1].type

InitSmart ==
    /\ now = 0
    /\ messages = <<>>
    /\ conversations = <<>> /\ nudges = <<>> /\ contacts = <<>>
    /\ integration = NoRow /\ prefs = NoRow
    /\ env = NoEnv
    /\ IdleWorkers
    /\ last = [op |-> "none", prev |-> "none"]
    /\ sends = <<>>

\* The clock moves on.
SmAdvance ==
    /\ last.op = "none"
    /\ \E t \in TimePoints : t > now /\ now' = t
    /\ UNCHANGED <<conversations, nudges, messages, contacts, integration, prefs,
                   env, pc, queue, held, last, sends>>

\* A message row is inserted (an inbound message handled, an outbound one sent).
SmStore ==
    /\ last.op = "none"
    /\ Len(messages) < MaxMsgs
    /\ \E cd \in {<<1, "incoming">>, <<1, "outgoing">>, <<2, "incoming">>} :
          messages' = Append(messages,
                          Message(cd[1], 1, cd[2], "hi", NULL, "delivered", now))
    /\ UNCHANGED <<now, conversations, nudges, contacts, integration, prefs,
                   env, pc, queue, held, last, sends>>

\* One call of send_smart_nudge; Faults are the outcomes of the store lookup
\* (TRUE: it raises) the specification allows.
SmDispatch(Faults) ==
    /\ last.op = "none"
    /\ \E approved \in {NULL, "A"}, draft \in {"", " ", "D"},
          conv \in {0, 1}, tok \in {"tok"}, lf \in Faults :
          LET nudge == [approved_content |-> approved, draft_content |-> draft,
                        conversation_id |-> conv]
          IN  \E rs \in Answers(SmartResponses, messages, now, nudge, "+1555",
                                tok, "pid", lf) :
                last' = [op |-> "send_smart_nudge", nudge |-> nudge,
                         lookup_fails |-> lf, answers |-> rs, prev |-> last.prev,
                         out |-> send_smart_nudge(messages, now, nudge, "+1555",
                                                  tok, "pid", lf, rs)]
    /\ UNCHANGED <<now, conversations, nudges, messages, contacts, integration,
                   prefs, env, pc, queue, held, sends>>

\* The caller takes the result.
SmReturn ==
    /\ last.op = "send_smart_nudge"
    /\ last' = [op |-> "none",
                prev |-> IF last.nudge.conversation_id = 1 /\ FirstType(last.out) # "none"
                         THEN FirstType(last.out) ELSE last.prev]
    /\ UNCHANGED <<now, conversations, nudges, messages, contacts, integration,
                   prefs, env, pc, queue, held, sends>>

NextSmart == SmAdvance \/ SmStore \/ SmDispatch({FALSE}) \/ SmReturn
SpecSmart == InitSmart /\ [][NextSmart]_vars

NextSmartFaults == SmAdvance \/ SmStore \/ SmDispatch(BOOLEAN) \/ SmReturn
SpecSmartFaults == InitSmart /\ [][NextSmartFaults]_vars

(***************************************************************************)
(* Claims on send_smart_nudge (SpecSmart)                                  *)
(***************************************************************************)
HasRecentInbound(conv) ==
    \E i \in DOMAIN messages :
        /\ messages[i].conversation_id = conv
        /\ messages[i].direction = "incoming"
        /\ now - messages[i].created_at < 24

ApprovedElseDraft(n) ==
    IF n.approved_content \notin {NULL, ""} THEN n.approved_content
    ELSE IF n.draft_content \notin {NULL, ""} THEN n.draft_content
    ELSE "Hello!"

\* C1: every call of send_smart_nudge sends free text carrying the nudge's
\* approved (else draft) content when the conversation has an incoming
\* message less than 24 hours old, and a template message otherwise (latest
\* incoming message 24 hours old or more, none, or no conversation).  The
\* choice follows the store and the clock as they are at the dispatch.
C1_WindowSelectsShape ==
    last.op = "send_smart_nudge" =>
        LET n == last.nudge
            out == last.out
        IN  /\ out.calls # <<>>
            /\ IF n.conversation_id # 0 /\ HasRecentInbound(n.conversation_id)
               THEN /\ Len(out.calls) = 1
                    /\ out.calls[1].type = "text"
                    /\ out.calls[1].content = ApprovedElseDraft(n)
               ELSE out.calls[1].type = "template"

\* C1 witness: a free-text dispatch for a conversation whose previous
\* dispatch was a template one.
C1_Witness ==
    /\ last.op = "send_smart_nudge"
    /\ last.nudge.conversation_id = 1
    /\ HasRecentInbound(1)
    /\ FirstType(last.out) = "text"
    /\ last.prev = "template"

\* The provider answered "template not found".
NotFoundAnswer(r) ==
    r.transport /\ (r.status = 404 \/ (r.status = 400 /\ r.body = "{error: 132001}"))

FailureAnswer(r) == ~r.transport \/ r.status < 200 \/ r.status > 299

\* C40: when the lookup of the last incoming message raises (the query
\* fails, or its timestamp does not parse), send_smart_nudge does not pass
\* the error on: it sends as a template message, never as free text, and
\* fails only with the delivery error of a provider call.
C40_LookupFailureMeansTemplate ==
    (last.op = "send_smart_nudge" /\ last.lookup_fails) =>
        LET n == last.nudge
            out == last.out
        IN  /\ out.calls # <<>>
            /\ \A k \in DOMAIN out.calls : out.calls[k].type = "template"
            /\ out = SendTemplateWithFallback("+1555", NudgeContent(n), "tok", "pid",
                                              last.answers)
            /\ ~out.ok =>
                  /\ out.error[1].error_type \in {NETWORK_ERROR, API_ERROR}
                  /\ FailureAnswer(last.answers[Len(out.calls)])

\* C40 witness: the conversation has an incoming message less than 24
\* hours old, the lookup raised, and the dispatch went out as a template
\* message that the provider accepted.
C40_Witness ==
    /\ last.op = "send_smart_nudge"
    /\ last.lookup_fails
    /\ last.nudge.conversation_id = 1
    /\ HasRecentInbound(1)
    /\ Len(last.out.calls) = 1
    /\ last.out.calls[1].type = "template"
    /\ last.out.ok

\* C2: when the primary template send fails with "template not found",
\* exactly one further send is made, with the fallback template and no
\* parameters; if that one fails too its error reaches the caller; no call
\* of send_smart_nudge makes more than two network calls.
C2_OneFallback ==
    last.op = "send_smart_nudge" =>
        LET out == last.out
            rs == last.answers
        IN  /\ Len(out.calls) <= 2
            /\ (out.calls # <<>> /\ out.calls[1].type = "template"
                  /\ NotFoundAnswer(rs[1])) =>
                 /\ Len(out.calls) = 2
                 /\ out.calls[1].content = "ai_followup"
                 /\ out.calls[2] = [to |-> out.calls[1].to, type |-> "template",
                                    content |-> "hello_world", language |-> "en",
                                    components |-> <<>>]
                 /\ FailureAnswer(rs[2]) =>
                      /\ ~out.ok
                      /\ out.error[1].message = rs[2].body
                      /\ out.error[1].status_code =
                           (IF rs[2].transport THEN Some(rs[2].status) ELSE None)
                 /\ ~FailureAnswer(rs[2]) =>
                      out.ok /\ out.result[1].message_id = rs[2].id

\* C2 witness: primary and fallback both answered "template not found".
C2_Witness ==
    /\ last.op = "send_smart_nudge"
    /\ Len(last.out.calls) = 2
    /\ NotFoundAnswer(last.answers[1])
    /\ NotFoundAnswer(last.answers[2])
    /\ ~last.out.ok

\* C22: in send_smart_nudge the fallback template send is attempted only
\* when the primary template send failed with an API error whose HTTP
\* status is 404 or whose body carries the provider's template-not-found
\* code; a network error or any other API error of the template send, and
\* any failure of a free-text send, reaches the caller unchanged with no
\* fallback send.
C22_FallbackOnlyNotFound ==
    last.op = "send_smart_nudge" =>
        LET out == last.out
            rs == last.answers
        IN  /\ Len(out.calls) = 2 =>
                 /\ out.calls[1].type = "template"
                 /\ NotFoundAnswer(rs[1])
            /\ (out.calls # <<>> /\ FailureAnswer(rs[1]) /\ ~NotFoundAnswer(rs[1])) =>
                 /\ Len(out.calls) = 1
                 /\ ~out.ok
                 /\ out.error[1].message = rs[1].body
                 /\ out.error[1].error_type =
                       (IF rs[1].transport THEN "api_error" ELSE "network_error")
                 /\ out.error[1].status_code =
                       (IF rs[1].transport THEN Some(rs[1].status) ELSE None)

(***************************************************************************)
(* Rows and queries shared by the handlers                                 *)
(***************************************************************************)
Conversation(contact, status) ==
    [contact_id |-> contact, status |-> status, last_message_at |-> None,
     next_action_at |-> None, auto_approved |-> FALSE]

Nudge(conv, contact, status, scheduled_at, draft, approved) ==
    [conversation_id |-> conv, contact_id |-> contact, status |-> status,
     scheduled_at |-> scheduled_at, sent_at |-> None, draft_content |-> draft,
     approved_content |-> approved, channel |-> "whatsapp"]

Contact(phone) == [phone_number |-> phone]
Integration(token, pid) == [access_token |-> token, phone_number_id |-> pid]
Preferences(auto) == [auto_send |-> auto]

\* .single().execute() on a table with no matching row: the source tests
\* "if not x.data", the client library may raise instead.
SingleOutcomes(row) == IF row = NoRow THEN {"none", "raises"} ELSE {"row"}

RECURSIVE SeqSum(_)
SeqSum(q) == IF q = <<>> THEN 0 ELSE Head(q) + SeqSum(Tail(q))

Ids(tbl) == [i \in 1..Len(tbl) |-> i]

\* The provider's message ids: a fresh one for every dispatch.
WamIds == <<"wamid.1", "wamid.2", "wamid.3", "wamid.4", "wamid.5", "wamid.6",
            "wamid.7", "wamid.8">>
MaxSends == 2
NextWamId == WamIds[SeqSum(sends) + 1]

TickResponses ==
    {HttpAnswer(200, "json", NextWamId), HttpAnswer(400, "{error: 131000}", "")}

\* The query without its lte("scheduled_at", now) filter.
IsUnsent(n, t) == n.status \in {"pending", "approved"}

\* nudges ... .in_("status", ["pending", "approved"]).lte("scheduled_at", now),
\* each row with its contacts(phone_number) join.
IsDue(n, t) == n.status \in {"pending", "approved"} /\ n.scheduled_at <= t

DueNudges(t) ==
    LET due == SelectSeq(Ids(nudges), LAMBDA i : IsDue(nudges[i], t))
    IN  [k \in DOMAIN due |->
            [id |-> due[k], row |-> nudges[due[k]],
             phone |-> contacts[nudges[due[k]].contact_id].phone_number]]

SetNudge(id, status, sent_at) ==
    [nudges EXCEPT ![id] = [@ EXCEPT !.status = status, !.sent_at = sent_at]]

SetNudgeStatus(id, status) == [nudges EXCEPT ![id].status = status]

OutgoingMessage(row, content, out, t) ==
    Message(row.conversation_id, row.contact_id, "outgoing", content,
            IF out.ok THEN out.result[1].message_id ELSE NULL,
            IF out.ok THEN "sent" ELSE "failed", t)

CredentialsMissing(ig) == ~Truthy(ig.access_token) \/ ~Truthy(ig.phone_number_id)

\* Observer: one more dispatch of nudge id reached the network.
CountSend(id, out) ==
    IF out.calls = <<>> THEN sends ELSE [sends EXCEPT ![id] = @ + 1]

\* The worker goes on to the next nudge of its query, or ends the tick.
Advance(w) ==
    /\ queue' = [queue EXCEPT ![w] = Tail(@)]
    /\ pc' = [pc EXCEPT ![w] = IF Tail(queue[w]) = <<>> THEN "idle" ELSE "loop"]

TickDone(w, q, path, out) ==
    [op |-> "tick", worker |-> w, nudge |-> q.id, snap |-> q.row,
     path |-> path, out |-> out, at |-> now]

(***************************************************************************)
(* SpecSend: send_whatsapp_message with passed and configured credentials  *)
(***************************************************************************)
Tokens == {NULL, "", " ", "tok"}
PhoneIds == {NULL, "", " ", "pid"}

\* The answers drawn for one call: those of SmartResponses and the success
\* answers with each kind of body.
SendResponses ==
    SmartResponses \cup
    {HttpAnswer(200, "json_nocontact", "wamid.2"), HttpAnswer(201, "json_empty", ""),
     HttpAnswer(200, "json_list", ""), HttpAnswer(200, "<html>", ""),
     HttpAnswer(500, "", "")}

InitSend ==
    /\ now = 0
    /\ messages = <<Message(1, 1, "incoming", "hi", "wamid.in", "delivered", 0)>>
    /\ conversations = <<Conversation(1, "pending")>>
    /\ nudges = <<Nudge(1, 1, "approved", 0, "D", "D")>>
    /\ contacts = <<Contact("+1555")>>
    /\ integration = NoRow /\ prefs = NoRow
    /\ env \in [token : {NULL, "", "tok"}, phone_id : {NULL, "pid"}, verify_token : {NULL}]
    /\ IdleWorkers
    /\ last = NoOp
    /\ sends = <<>>

\* One call of send_whatsapp_message.
SwSend ==
    /\ \E access_token \in Tokens, phone_number_id \in PhoneIds,
          msg_type \in {"text", "template"}, r \in SendResponses :
          last' = [op |-> "send_whatsapp_message", access_token |-> access_token,
                   phone_number_id |-> phone_number_id, msg_type |-> msg_type,
                   answer |-> r,
                   out |-> send_whatsapp_message("+1555", msg_type,
                              IF msg_type = "text" THEN "D" ELSE DEFAULT_TEMPLATE_NAME,
                              access_token, phone_number_id, <<>>, r)]
    /\ UNCHANGED <<now, conversations, nudges, messages, contacts, integration,
                   prefs, env, pc, queue, held, sends>>

NextSend == SwSend
SpecSend == InitSend /\ [][NextSend]_vars

(***************************************************************************)
(* Claims on send_whatsapp_message (SpecSend)                              *)
(***************************************************************************)
\* Neither passed nor configured.
Absent(passed, configured) == passed \in {NULL, ""} /\ configured \in {NULL, ""}

MissingCredentialNoCall(out) ==
    /\ ~out.ok
    /\ out.error[1].error_type = "missing_env_var"
    /\ out.calls = <<>>

\* C17 as stated: send_whatsapp_message fails with the missing-credential
\* error, making no network call, whenever the access token or the phone
\* number id is neither passed nor configured; in every other invocation it
\* makes exactly one network call.
C17_CredentialsAsStated ==
    last.op = "send_whatsapp_message" =>
        IF \/ Absent(last.access_token, env.token)
           \/ Absent(last.phone_number_id, env.phone_id)
        THEN MissingCredentialNoCall(last.out)
        ELSE Len(last.out.calls) = 1

\* The token the function uses (the one passed, else the configured one) is
\* None, empty or whitespace only.
EffectiveTokenBlank(passed, configured) ==
    \/ passed \in {NULL, ""} /\ configured \in {NULL, "", " "}
    \/ passed = " "

\* C17 amended: the function fails with the missing-credential error and
\* makes no network call whenever the token it uses (the one passed, else
\* the configured one) is None, empty or whitespace only, or the phone
\* number id is neither passed nor configured; in every other invocation it
\* makes exactly one network call; it never writes to the store.
C17_CredentialsChecked ==
    [][(last' # last /\ last'.op = "send_whatsapp_message") =>
        /\ IF \/ EffectiveTokenBlank(last'.access_token, env.token)
              \/ Absent(last'.phone_number_id, env.phone_id)
           THEN MissingCredentialNoCall(last'.out)
           ELSE Len(last'.out.calls) = 1
        /\ UNCHANGED <<conversations, nudges, messages, contacts, integration,
                       prefs>>]_vars

\* C17 witness: a whitespace-only token was passed while a token is
\* configured; the call failed with the missing-credential error and made
\* no network call.
C17_Witness ==
    /\ last.op = "send_whatsapp_message"
    /\ last.access_token = " "
    /\ env.token = "tok"
    /\ last.phone_number_id = "pid"
    /\ MissingCredentialNoCall(last.out)

\* The body of a success answer parses as JSON.
Parseable(r) == r.body \in {"json", "json_nocontact", "json_empty", "json_list"}

\* C23: send_whatsapp_message classifies every outcome of its network call
\* into exactly one result: a transport failure or an unparseable success
\* body gives a network error; a non-success HTTP status gives an API error
\* carrying that status code and the raw body; a success status with a
\* parseable body gives a SendResult with the provider message id, the
\* recipient id if present, and status queued.
C23_OutcomeClassified ==
    (last.op = "send_whatsapp_message" /\ last.out.calls # <<>>) =>
        LET r == last.answer
            out == last.out
        IN  IF ~r.transport \/ (IsSuccess(r) /\ ~Parseable(r))
            THEN /\ ~out.ok
                 /\ out.error[1].error_type = "network_error"
                 /\ out.error[1].status_code = None
            ELSE IF ~IsSuccess(r)
            THEN /\ ~out.ok
                 /\ out.error[1] = [error_type |-> "api_error", message |-> r.body,
                                    status_code |-> Some(r.status)]
            ELSE /\ out.ok
                 /\ out.result[1].status = "queued"
                 /\ r.body \in {"json", "json_nocontact"} =>
                       out.result[1].message_id = r.id
                 /\ out.result[1].recipient_wa_id =
                       (IF r.body = "json" THEN "wa_id" ELSE NULL)

(***************************************************************************)
(* The store calls of a tick that can fail, and the per-nudge try blocks   *)
(***************************************************************************)
TickSteps ==
    {"prefs", "integration", "ready_update", "fail_update", "nudge_update",
     "msg_insert"}

\* The processing of one nudge without a try block around it.
PerNudgeUncaught(x) == x
\* scheduler.process_single_nudge: try: ... except Exception: logger.error;
\* cron.process_due_nudges: try: await process_single_nudge(nudge)
\*                           except Exception: errors += 1
PerNudgeCaught(x) == [x EXCEPT !.raised = FALSE]

\* The loop after one nudge: on to the next one, or, an exception having
\* left the loop body, out of the loop.
AfterNudge(w, raised) ==
    IF PerNudgeCaught([raised |-> raised]).raised
    THEN /\ queue' = [queue EXCEPT ![w] = <<>>]
         /\ pc' = [pc EXCEPT ![w] = "idle"]
    ELSE Advance(w)

(***************************************************************************)
(* scheduler.py: the in-process tick                                       *)
(***************************************************************************)
\* process_due_nudges, up to the loop.
SchedQuery ==
    /\ pc["sched"] = "idle"
    /\ queue' = [queue EXCEPT !["sched"] = DueNudges(now)]
    /\ pc' = [pc EXCEPT !["sched"] = IF DueNudges(now) = <<>> THEN "idle" ELSE "loop"]
    /\ UNCHANGED <<now, conversations, nudges, messages, contacts, integration,
                   prefs, env, held, last, sends>>

\* process_single_nudge: does the nudge go to auto_send_nudge?
SchedAutoSends(q, pr) ==
    \/ q.row.status = "approved"
    \/ pr = "row" /\ prefs.auto_send

\* auto_send_nudge, up to the send: is the send reached?
SchedReachesSend(q, ig) ==
    /\ Truthy(q.phone)
    /\ ig = "row"
    /\ ~CredentialsMissing(integration)

\* process_single_nudge and auto_send_nudge up to the awaited send.  F: the
\* sets of failing store calls drawn from.
SchedProcess(F) ==
    /\ pc["sched"] = "loop"
    /\ LET q == Head(queue["sched"])
       IN  \E pr0 \in SingleOutcomes(prefs), ig0 \in SingleOutcomes(integration), f \in F :
             LET pr == IF "prefs" \in f THEN "raises" ELSE pr0
                 ig == IF "integration" \in f THEN "raises" ELSE ig0
                 prefs_raised == q.row.status # "approved" /\ pr = "raises"
             IN  IF SchedAutoSends(q, pr) /\ SchedReachesSend(q, ig)
                 THEN /\ SeqSum(sends) < MaxSends
                      /\ \E rs \in Answers(TickResponses, messages, now, q.row, q.phone,
                                           integration.access_token,
                                           integration.phone_number_id, FALSE) :
                           LET out == send_smart_nudge(messages, now, q.row, q.phone,
                                          integration.access_token,
                                          integration.phone_number_id, FALSE, rs)
                           IN  /\ held' = [held EXCEPT !["sched"] = out]
                               /\ sends' = CountSend(q.id, out)
                      /\ pc' = [pc EXCEPT !["sched"] = "await"]
                      /\ UNCHANGED <<queue, last>>
                 ELSE /\ AfterNudge("sched", prefs_raised)
                      /\ last' = TickDone("sched", q, "skipped", NoOutcome)
                      /\ UNCHANGED <<held, sends>>
    /\ UNCHANGED <<now, conversations, nudges, messages, contacts, integration,
                   prefs, env>>

\* auto_send_nudge after the send returned or raised; its own try block
\* takes every exception.
SchedResume(F) ==
    /\ pc["sched"] = "await"
    /\ \E f \in F :
         LET q == Head(queue["sched"])
             out == held["sched"]
         IN  /\ IF out.ok /\ "nudge_update" \notin f
                THEN /\ nudges' = SetNudge(q.id, "sent", Some(now))
                     /\ messages' =
                           IF "msg_insert" \in f THEN messages
                           ELSE Append(messages,
                                    OutgoingMessage(q.row, NudgeContent(q.row), out, now))
                ELSE UNCHANGED <<nudges, messages>>
             /\ last' = TickDone("sched", q,
                           IF ~out.ok THEN "send_failed"
                           ELSE IF f \cap {"nudge_update", "msg_insert"} # {}
                           THEN "store_failed" ELSE "sent", out)
    /\ AfterNudge("sched", FALSE)
    /\ held' = [held EXCEPT !["sched"] = NoOutcome]
    /\ UNCHANGED <<now, conversations, contacts, integration, prefs, env, sends>>

(***************************************************************************)
(* routers/cron.py: the tick behind POST /cron/process-nudges              *)
(***************************************************************************)
\* processed and errors of process_due_nudges, len(due_nudges), and the
\* outcome of the awaited send.
CronLocals(out, processed, errors, due) ==
    [out |-> out, processed |-> processed, errors |-> errors, due |-> due]

CronQuery ==
    /\ pc["cron"] = "idle"
    /\ queue' = [queue EXCEPT !["cron"] = DueNudges(now)]
    /\ pc' = [pc EXCEPT !["cron"] = IF DueNudges(now) = <<>> THEN "idle" ELSE "loop"]
    /\ held' = [held EXCEPT !["cron"] =
                   IF DueNudges(now) = <<>> THEN NoOutcome
                   ELSE CronLocals(NoOutcome, 0, 0, Len(DueNudges(now)))]
    /\ UNCHANGED <<now, conversations, nudges, messages, contacts, integration,
                   prefs, env, last, sends>>

\* process_single_nudge: a failed preference lookup counts as auto_send off.
CronAutoSends(q, pr) ==
    \/ q.row.status = "approved"
    \/ pr = "row" /\ prefs.auto_send

\* process_single_nudge returned or raised: the counters, the answer of the
\* request, and the loop.
CronDone(q, path, out, raised) ==
    LET h == held["cron"]
        processed == h.processed + (IF raised THEN 0 ELSE 1)
        errors == h.errors + (IF raised THEN 1 ELSE 0)
        over == PerNudgeCaught([raised |-> raised]).raised
                   \/ Tail(queue["cron"]) = <<>>
    IN  /\ AfterNudge("cron", raised)
        /\ held' = [held EXCEPT !["cron"] =
                       IF over THEN NoOutcome
                       ELSE CronLocals(NoOutcome, processed, errors, h.due)]
        /\ last' = [op |-> "tick", worker |-> "cron", nudge |-> q.id, snap |-> q.row,
                    path |-> path, out |-> out, at |-> now, raised |-> raised,
                    processed |-> processed, errors |-> errors, due |-> h.due]

\* process_single_nudge and auto_send_nudge up to the awaited send.
CronProcess(F) ==
    /\ pc["cron"] = "loop"
    /\ LET q == Head(queue["cron"])
       IN  \E pr0 \in SingleOutcomes(prefs), ig0 \in SingleOutcomes(integration), f \in F :
             LET pr == IF "prefs" \in f THEN "raises" ELSE pr0
                 ig == IF "integration" \in f THEN "raises" ELSE ig0
             IN  IF ~CronAutoSends(q, pr)
                 THEN /\ nudges' = IF "ready_update" \in f THEN nudges
                                   ELSE SetNudgeStatus(q.id, "ready")
                      /\ CronDone(q, IF "ready_update" \in f THEN "store_failed" ELSE "ready",
                                  NoOutcome, "ready_update" \in f)
                      /\ UNCHANGED sends
                 ELSE IF ~Truthy(q.phone) \/ ig = "raises"
                 THEN /\ nudges' = IF "fail_update" \in f THEN nudges
                                   ELSE SetNudgeStatus(q.id, "failed")
                      /\ CronDone(q, IF "fail_update" \in f THEN "store_failed" ELSE "failed",
                                  NoOutcome, "fail_update" \in f)
                      /\ UNCHANGED sends
                 ELSE IF ig = "none" \/ CredentialsMissing(integration)
                 THEN /\ CronDone(q, "skipped", NoOutcome, FALSE)
                      /\ UNCHANGED <<nudges, sends>>
                 ELSE /\ SeqSum(sends) < MaxSends
                      /\ \E rs \in Answers(TickResponses, messages, now, q.row, q.phone,
                                           integration.access_token,
                                           integration.phone_number_id, FALSE) :
                           LET out == send_smart_nudge(messages, now, q.row, q.phone,
                                          integration.access_token,
                                          integration.phone_number_id, FALSE, rs)
                           IN  /\ held' = [held EXCEPT !["cron"].out = out]
                               /\ sends' = CountSend(q.id, out)
                      /\ pc' = [pc EXCEPT !["cron"] = "await"]
                      /\ UNCHANGED <<nudges, queue, last>>
    /\ UNCHANGED <<now, conversations, messages, contacts, integration, prefs, env>>

\* auto_send_nudge after the send returned or raised: the two writes, and
\* the except clause with its own write.
CronResume(F) ==
    /\ pc["cron"] = "await"
    /\ \E f \in F :
         LET q == Head(queue["cron"])
             out == held["cron"].out
             in_except == ~out.ok \/ f \cap {"nudge_update", "msg_insert"} # {}
             raised == in_except /\ "fail_update" \in f
             updated == IF out.ok /\ "nudge_update" \notin f
                        THEN SetNudge(q.id, "sent", Some(now)) ELSE nudges
         IN  /\ nudges' = IF in_except /\ ~raised
                          THEN [updated EXCEPT ![q.id].status = "failed"]
                          ELSE updated
             /\ messages' =
                   IF in_except THEN messages
                   ELSE Append(messages,
                          OutgoingMessage(q.row,
                              Or(Or(q.row.approved_content, q.row.draft_content), ""),
                              out, now))
             /\ CronDone(q, IF ~out.ok THEN "send_failed"
                            ELSE IF in_except THEN "store_failed" ELSE "sent",
                         out, raised)
    /\ UNCHANGED <<now, conversations, contacts, integration, prefs, env, sends>>

(***************************************************************************)
(* routers/nudges.py: POST /nudges/{id}/send                               *)
(***************************************************************************)
\* str(e.status_code) if e.status_code else "unknown"
ErrorCode(e) == IF e.status_code = None THEN "unknown" ELSE ToString(e.status_code[1])

HttpReply(op, id, code, detail) ==
    [op |-> op, nudge |-> id, code |-> code, detail |-> detail, at |-> now]

\* send_nudge up to the awaited send; any nudge of the account, whatever its
\* status, can be named.
ManualSend ==
    /\ pc["manual"] = "idle"
    /\ \E id \in DOMAIN nudges, ig \in SingleOutcomes(integration) :
         LET q == [id |-> id, row |-> nudges[id],
                   phone |-> contacts[nudges[id].contact_id].phone_number]
         IN  IF ig = "raises"
             THEN /\ last' = HttpReply("send_nudge", id, 500, "integration lookup")
                  /\ UNCHANGED <<pc, queue, held, sends>>
             ELSE IF ig = "none" \/ CredentialsMissing(integration)
             THEN /\ last' = HttpReply("send_nudge", id, 400, "not configured")
                  /\ UNCHANGED <<pc, queue, held, sends>>
             ELSE /\ SeqSum(sends) < MaxSends
                  /\ \E rs \in Answers(TickResponses, messages, now, q.row, q.phone,
                                       integration.access_token,
                                       integration.phone_number_id, FALSE) :
                       LET out == send_smart_nudge(messages, now, q.row, q.phone,
                                      integration.access_token,
                                      integration.phone_number_id, FALSE, rs)
                       IN  /\ held' = [held EXCEPT !["manual"] = out]
                           /\ sends' = CountSend(id, out)
                  /\ queue' = [queue EXCEPT !["manual"] = <<q>>]
                  /\ pc' = [pc EXCEPT !["manual"] = "await"]
                  /\ UNCHANGED last
    /\ UNCHANGED <<now, conversations, nudges, messages, contacts, integration,
                   prefs, env>>

\* send_nudge after the send returned or raised DeliveryError.
ManualResume ==
    /\ pc["manual"] = "await"
    /\ LET q == Head(queue["manual"])
           out == held["manual"]
           msg == OutgoingMessage(q.row, NudgeContent(q.row), out, now)
       IN  IF out.ok
           THEN /\ messages' = Append(messages, [msg EXCEPT !.sent_at = Some(now)])
                /\ nudges' = [SetNudge(q.id, "sent", Some(now))
                                 EXCEPT ![q.id].channel = "whatsapp"]
                /\ conversations' =
                      IF q.row.conversation_id # 0
                      THEN [conversations EXCEPT ![q.row.conversation_id] =
                              [@ EXCEPT !.last_message_at = Some(now),
                                        !.status = "awaiting"]]
                      ELSE conversations
                /\ last' = [HttpReply("send_nudge", q.id, 200, "sent") EXCEPT !.at = now]
           ELSE /\ messages' = Append(messages,
                      [msg EXCEPT !.failed_at = Some(now),
                                  !.error_code = ErrorCode(out.error[1]),
                                  !.error_message = out.error[1].message])
                /\ nudges' = SetNudgeStatus(q.id, "failed")
                /\ UNCHANGED conversations
                /\ last' = HttpReply("send_nudge", q.id, 500, "can_retry")
    /\ Advance("manual")
    /\ held' = [held EXCEPT !["manual"] = NoOutcome]
    /\ UNCHANGED <<now, contacts, integration, prefs, env, sends>>

(***************************************************************************)
(* SpecTick: the three dispatchers over one store                          *)
(***************************************************************************)
InitTick ==
    /\ now = 0
    /\ \E p2 \in {"+1666", NULL} :
          contacts = <<Contact("+1555"), Contact(p2)>>
    /\ conversations = <<Conversation(1, "pending"), Conversation(2, "pending")>>
    /\ \E s1 \in {"pending", "approved"}, s2 \in {"approved", "sent"}, t2 \in {1} :
          nudges = <<Nudge(1, 1, s1, 0, "D", IF s1 = "pending" THEN NULL ELSE "D"),
                     Nudge(2, 2, s2, t2, "E", "E")>>
    /\ messages \in {<<>>, <<Message(1, 1, "incoming", "hi", "wamid.in", "delivered", 0)>>}
    /\ integration \in {NoRow, Integration("tok", "pid"), Integration("tok", NULL)}
    /\ prefs \in {NoRow, Preferences(TRUE), Preferences(FALSE)}
    /\ env = NoEnv
    /\ IdleWorkers
    /\ last = NoOp
    /\ sends = [i \in 1..2 |-> 0]

TickClock ==
    /\ now = 0
    /\ now' = 1
    /\ UNCHANGED <<conversations, nudges, messages, contacts, integration, prefs,
                   env, pc, queue, held, last, sends>>

NextTick ==
    \/ TickClock
    \/ SchedQuery \/ SchedProcess({{}}) \/ SchedResume({{}})
    \/ CronQuery \/ CronProcess({{}}) \/ CronResume({{}})
    \/ ManualSend \/ ManualResume
SpecTick == InitTick /\ [][NextTick]_vars

\* The two ticks with at most one store call failing per step.
TickFaults == {{}} \cup {{x} : x \in TickSteps}

NextTickFaults ==
    \/ TickClock
    \/ SchedQuery \/ SchedProcess(TickFaults) \/ SchedResume(TickFaults)
    \/ CronQuery \/ CronProcess(TickFaults) \/ CronResume(TickFaults)
SpecTickFaults == InitTick /\ [][NextTickFaults]_vars

\* The two ticks run again and again: the in-process scheduler on its
\* interval, the cron route at every call of the database's cron job.  Each
\* step of a tick that can be taken is taken.
NextTickLive ==
    \/ TickClock
    \/ SchedQuery \/ SchedProcess({{}}) \/ SchedResume({{}})
    \/ CronQuery \/ CronProcess({{}}) \/ CronResume({{}})
SpecTickLive ==
    /\ InitTick /\ [][NextTickLive]_vars
    /\ WF_vars(TickClock)
    /\ WF_vars(SchedQuery) /\ WF_vars(SchedProcess({{}})) /\ WF_vars(SchedResume({{}}))
    /\ WF_vars(CronQuery) /\ WF_vars(CronProcess({{}})) /\ WF_vars(CronResume({{}}))

\* Ticks that do not overlap: a tick starts when no other tick is under way
\* (the scheduler's interval job, the cron route called by one cron job).
SeqSchedQuery == pc["cron"] = "idle" /\ SchedQuery
SeqCronQuery == pc["sched"] = "idle" /\ CronQuery

NextTickSeq ==
    \/ TickClock
    \/ SeqSchedQuery \/ SchedProcess(TickFaults) \/ SchedResume(TickFaults)
    \/ SeqCronQuery \/ CronProcess(TickFaults) \/ CronResume(TickFaults)
SpecTickSeq == InitTick /\ [][NextTickSeq]_vars

(***************************************************************************)
(* tools.py, routers/webhooks.py, database.py: operations on the store     *)
(***************************************************************************)
\* The four tables as one value, for the code of a handler run in one piece.
Store ==
    [conversations |-> conversations, nudges |-> nudges,
     messages |-> messages, contacts |-> contacts]

\* A block of code ended: the store it leaves, and whether an exception
\* leaves the block.
Done(S) == [S |-> S, raised |-> FALSE]
Raised(S) == [S |-> S, raised |-> TRUE]
\* The block without its except clause.
Uncaught(x) == x
\* try: ... except Exception as e: print(...)
Caught(x) == [x EXCEPT !.raised = FALSE]

\* update nudges set status = cancelled where conversation_id = conv and
\* status = pending.
CancelPendingOnly(ns, conv) ==
    [i \in DOMAIN ns |->
        IF ns[i].conversation_id = conv /\ ns[i].status = "pending"
        THEN [ns[i] EXCEPT !.status = "cancelled"] ELSE ns[i]]

\* ... .eq("conversation_id", conv).in_("status", ["pending", "approved"])
CancelActive(ns, conv) ==
    [i \in DOMAIN ns |->
        IF ns[i].conversation_id = conv /\ ns[i].status \in {"pending", "approved"}
        THEN [ns[i] EXCEPT !.status = "cancelled"] ELSE ns[i]]

DEFAULT_NUDGE_CONTENT == "Hi! Just following up"

\* schedule_nudge with the initial status always pending.
schedule_nudge_unapproved(S, thread_id, check_after_hours, suggested_content, t) ==
    LET conv == S.conversations[thread_id]
        content == Or(suggested_content, DEFAULT_NUDGE_CONTENT)
    IN  [S EXCEPT !.nudges =
            Append(CancelActive(S.nudges, thread_id),
                   Nudge(thread_id, conv.contact_id, "pending",
                         t + check_after_hours, content, NULL))]

\* schedule_nudge for a conversation that exists.
schedule_nudge(S, thread_id, check_after_hours, suggested_content, t) ==
    LET conv == S.conversations[thread_id]
        is_auto_approved == conv.auto_approved
        content == Or(suggested_content, DEFAULT_NUDGE_CONTENT)
    IN  [S EXCEPT !.nudges =
            Append(CancelActive(S.nudges, thread_id),
                   Nudge(thread_id, conv.contact_id,
                         IF is_auto_approved THEN "approved" ELSE "pending",
                         t + check_after_hours, content,
                         IF is_auto_approved THEN content ELSE NULL))]

\* The update without the status among its columns.
update_conversation_times(S, conversation_id, status, next_action_at) ==
    [S EXCEPT !.conversations[conversation_id] =
        [@ EXCEPT !.next_action_at = IF next_action_at = None THEN @ ELSE next_action_at]]

\* database.update_conversation: a null next_action_at leaves the column.
update_conversation(S, conversation_id, status, next_action_at) ==
    [S EXCEPT !.conversations[conversation_id] =
        [@ EXCEPT !.status = status,
                  !.next_action_at = IF next_action_at = None THEN @ ELSE next_action_at]]

calculate_next_action_at(after_hours, t) ==
    IF after_hours = None THEN None ELSE Some(t + after_hours[1])

\* sanitize_phone_number on the sender strings of the model.
sanitize_phone_number(phone) ==
    CASE phone = NULL -> ""
      [] phone = "abc" -> ""
      [] phone = "1 555" -> "1555"
      [] OTHER -> phone

StartsWithPlus(p) == p \in {"+1555", "+1666", "+1777"}
WithPlus(p) ==
    CASE p = "1555" -> "+1555" [] p = "1666" -> "+1666" [] p = "1777" -> "+1777"
      [] OTHER -> p

Min(X) == CHOOSE x \in X : \A y \in X : x <= y
Max(X) == CHOOSE x \in X : \A y \in X : y <= x

\* find_user_by_phone_number_id: the account whose integration has this id.
find_user_by_phone_number_id(phone_number_id, f) ==
    /\ Truthy(phone_number_id)
    /\ "find_user" \notin f
    /\ integration # NoRow
    /\ integration.phone_number_id = phone_number_id

\* get_or_create_contact: the store it leaves and the contact's id (0: None).
get_or_create_contact(S, phone_number, f) ==
    LET safe_phone == sanitize_phone_number(phone_number)
        search_number == IF StartsWithPlus(safe_phone) THEN safe_phone
                         ELSE WithPlus(safe_phone)
        found == {i \in DOMAIN S.contacts :
                     S.contacts[i].phone_number \in {search_number, safe_phone}}
    IN  IF safe_phone = "" \/ "contact" \in f THEN [S |-> S, id |-> 0]
        ELSE IF found # {} THEN [S |-> S, id |-> Min(found)]
        ELSE [S |-> [S EXCEPT !.contacts = Append(@, Contact(search_number))],
              id |-> Len(S.contacts) + 1]

\* get_or_create_conversation: the contact's newest conversation whose
\* status is not "resolved", or a new one with status "active".
get_or_create_conversation(S, contact_id, f) ==
    LET found == {i \in DOMAIN S.conversations :
                     /\ S.conversations[i].contact_id = contact_id
                     /\ S.conversations[i].status # "resolved"}
    IN  IF "conversation" \in f THEN [S |-> S, id |-> 0]
        ELSE IF found # {} THEN [S |-> S, id |-> Max(found)]
        ELSE [S |-> [S EXCEPT !.conversations =
                        Append(@, Conversation(contact_id, "active"))],
              id |-> Len(S.conversations) + 1]

(***************************************************************************)
(* agent.py, routers/webhooks.py: the inbound message and the receipts     *)
(***************************************************************************)
Decision(action, after_hours, new_status) ==
    [action |-> action, after_hours |-> after_hours, new_status |-> new_status]

\* models.FALLBACK_RESPONSE
FALLBACK_RESPONSE == Decision("wait", Some(24), "pending")

\* reason_node: the texts of the model that match a rejection pattern
\* (searched in the lower-cased text).
IsRejection(text) == text \in {"STOP please", "no thanks"}

\* What the language model does in one run of the graph: the tool call it
\* makes (None, or the arguments of schedule_nudge), whether the run raises,
\* and the structured decision it ends with.
AgentRun(tool, fails, decision) == [tool |-> tool, fails |-> fails, decision |-> decision]

\* run_decision without its except clause: the exception of a failed run
\* reaches the caller.
run_decision_unguarded(S, conversation_id, text, agent, t) ==
    [S |-> IF agent.tool # None /\ ~IsRejection(text)
           THEN schedule_nudge(S, conversation_id, agent.tool[1].hours,
                               agent.tool[1].content, t)
           ELSE S,
     decision |-> agent.decision,
     raised |-> agent.fails]

\* run_decision: the tool node runs unless reason_node saw a rejection; any
\* exception gives the fallback decision, the tool's writes stay.
run_decision(S, conversation_id, text, agent, t) ==
    [S |-> IF agent.tool # None /\ ~IsRejection(text)
           THEN schedule_nudge(S, conversation_id, agent.tool[1].hours,
                               agent.tool[1].content, t)
           ELSE S,
     decision |-> IF agent.fails THEN FALLBACK_RESPONSE ELSE agent.decision,
     raised |-> FALSE]

\* process_with_ai_agent: status_map.get(current_db_status, PENDING)
StatusMap(s) ==
    CASE s = "promised" -> "promised"
      [] s = "escalated" -> "escalated"
      [] s \in {"closed", "resolved"} -> "closed"
      [] OTHER -> "pending"

build_reply_message(decision) ==
    CASE decision.action = "close" -> "reply: completed"
      [] decision.action = "escalate" -> "reply: human agent"
      [] decision.action = "reschedule" -> "reply: follow up"
      [] decision.action = "wait" -> "reply: processing"
      [] OTHER -> ""

HandlerResult(S, raised, conv, last_status, decision, reply) ==
    [S |-> S, raised |-> raised, conv |-> conv, last_status |-> last_status,
     decision |-> decision, reply |-> reply]

\* process_with_ai_agent.  f is the set of the steps that fail in this run.
process_with_ai_agent(S, conversation_id, contact_id, text, f, agent, r, t) ==
    LET last_status == StatusMap(S.conversations[conversation_id].status)
        ran == run_decision(S, conversation_id, text, agent, t)
        decision == ran.decision
        reply_text == build_reply_message(decision)
        S1 == update_conversation(ran.S, conversation_id, decision.new_status,
                                  calculate_next_action_at(decision.after_hours, t))
        S2 == IF decision.action = "close"
              THEN [S1 EXCEPT !.nudges = CancelActive(@, conversation_id)]
              ELSE S1
        to_phone == S.contacts[contact_id].phone_number
        sent == send_whatsapp_message(to_phone, "text", reply_text, NULL, NULL, <<>>, r)
    IN  Caught(
          IF "read_status" \in f
          THEN HandlerResult(S, TRUE, conversation_id, NULL, None, NoOutcome)
          ELSE IF ran.raised
          THEN HandlerResult(ran.S, TRUE, conversation_id, last_status, None, NoOutcome)
          ELSE IF "conv_update" \in f
          THEN HandlerResult(ran.S, TRUE, conversation_id, last_status, Some(decision), NoOutcome)
          ELSE IF decision.action = "close" /\ "cancel" \in f
          THEN HandlerResult(S1, TRUE, conversation_id, last_status, Some(decision), NoOutcome)
          ELSE IF "contact_read" \in f
          THEN HandlerResult(S2, TRUE, conversation_id, last_status, Some(decision), NoOutcome)
          ELSE HandlerResult(S2, FALSE, conversation_id, last_status, Some(decision), sent))

\* The text of a message of type text, button or interactive; "" otherwise.
TextBody(message) ==
    IF message.type \in {"text", "button", "interactive"} THEN message.body ELSE ""

handle_incoming_message(S, message, phone_number_id, f, agent, r, t) ==
    LET text_body == TextBody(message)
        c == get_or_create_contact(S, message.from, f)
        v == get_or_create_conversation(c.S, c.id, f)
        S3 == IF "insert" \in f THEN v.S
              ELSE [v.S EXCEPT !.messages =
                      Append(@, Message(v.id, c.id, "incoming", text_body,
                                        message.id, "delivered", t))]
        S4 == IF "update" \in f THEN S3
              ELSE [S3 EXCEPT !.conversations[v.id] =
                      [@ EXCEPT !.last_message_at = Some(t),
                                !.status = "needs_response"]]
    IN  IF ~Truthy(text_body) \/ ~find_user_by_phone_number_id(phone_number_id, f)
        THEN HandlerResult(S, FALSE, 0, NULL, None, NoOutcome)
        ELSE IF c.id = 0
        THEN HandlerResult(c.S, FALSE, 0, NULL, None, NoOutcome)
        ELSE IF v.id = 0
        THEN HandlerResult(v.S, FALSE, 0, NULL, None, NoOutcome)
        ELSE Caught(process_with_ai_agent(S4, v.id, c.id, text_body, f, agent, r, t))

\* A receipt's first error as the handler stores it.
ReceiptErrorCode(e) == IF e.code = None THEN "unknown" ELSE ToString(e.code[1])
ReceiptErrorMessage(e) ==
    Or(IF e.title = NULL THEN "" ELSE e.title,
       IF e.message = NULL THEN "Unknown error" ELSE e.message)

\* update_data of handle_status_update applied to a messages row.
StatusStamp(m, status, t) ==
    LET base == [m EXCEPT !.status = status.status]
    IN  CASE status.status = "sent" -> [base EXCEPT !.sent_at = Some(t)]
          [] status.status = "delivered" -> [base EXCEPT !.delivered_at = Some(t)]
          [] status.status = "read" -> [base EXCEPT !.read_at = Some(t)]
          [] status.status = "failed" ->
               IF status.errors = <<>> THEN [base EXCEPT !.failed_at = Some(t)]
               ELSE [base EXCEPT !.failed_at = Some(t),
                                 !.error_code = ReceiptErrorCode(status.errors[1]),
                                 !.error_message = ReceiptErrorMessage(status.errors[1])]
          [] OTHER -> base

\* update nudges set status = failed where conversation_id = conv.
FailEveryNudge(ns, conv) ==
    [i \in DOMAIN ns |->
        IF ns[i].conversation_id = conv
        THEN [ns[i] EXCEPT !.status = "failed"] ELSE ns[i]]

\* update nudges set status = failed where conversation_id = conv and
\* status = sent.
FailSentNudges(ns, conv) ==
    [i \in DOMAIN ns |->
        IF ns[i].conversation_id = conv /\ ns[i].status = "sent"
        THEN [ns[i] EXCEPT !.status = "failed"] ELSE ns[i]]

\* The conversation update without its in_("status", ...) filter.
AdvancesAlways(conv_status) == TRUE
\* ... .eq("id", conversation_id).in_("status", ["pending", "approved"])
AdvancesOnDelivery(conv_status) == conv_status \in {"pending", "approved"}

handle_status_update(S, status, f, t) ==
    LET rows == {i \in DOMAIN S.messages :
                    S.messages[i].whatsapp_message_id = status.id}
        S1 == [S EXCEPT !.messages =
                 [i \in DOMAIN S.messages |->
                     IF i \in rows THEN StatusStamp(S.messages[i], status, t)
                     ELSE S.messages[i]]]
        conversation_id == S.messages[Min(rows)].conversation_id
        S2 == IF conversation_id # 0 /\ status.status = "failed" /\ "sync_nudge" \notin f
              THEN [S1 EXCEPT !.nudges = FailSentNudges(@, conversation_id)]
              ELSE IF /\ conversation_id # 0 /\ status.status = "delivered"
                      /\ "sync_conversation" \notin f
                      /\ AdvancesOnDelivery(S.conversations[conversation_id].status)
              THEN [S1 EXCEPT !.conversations[conversation_id].status = "awaiting"]
              ELSE S1
    IN  IF ~Truthy(status.id) \/ ~Truthy(status.status)
        THEN HandlerResult(S, FALSE, 0, NULL, None, NoOutcome)
        ELSE Caught(
               IF "msg_update" \in f
               THEN HandlerResult(S, TRUE, 0, NULL, None, NoOutcome)
               ELSE IF rows = {}
               THEN HandlerResult(S1, FALSE, 0, NULL, None, NoOutcome)
               ELSE HandlerResult(S2, FALSE, conversation_id, NULL, None, NoOutcome))

(***************************************************************************)
(* SpecNudge: scheduling and the dashboard's nudge and conversation routes *)
(* over one store                                                          *)
(***************************************************************************)
MaxNudges == 3

Commit(S) ==
    /\ conversations' = S.conversations
    /\ nudges' = S.nudges
    /\ messages' = S.messages
    /\ contacts' = S.contacts

ActiveNudges(ns, conv) ==
    {i \in DOMAIN ns : ns[i].conversation_id = conv
                       /\ ns[i].status \in {"pending", "approved"}}

\* The structured decisions drawn: the validator of DecisionResponse only
\* ties action close to a null after_hours.
Decisions ==
    {Decision("wait", Some(24), "pending"), Decision("reschedule", Some(24), "promised"),
     Decision("escalate", None, "escalated"), Decision("close", None, "closed"),
     Decision("close", None, "pending"), Decision("wait", Some(24), "closed")}

ReplyResponses == {HttpAnswer(200, "json", "wamid.r"), HttpAnswer(400, "{error: 131000}", "")}

\* tools.schedule_nudge, called by the tool node of the agent graph.
NgSchedule ==
    /\ Len(nudges) < MaxNudges
    /\ \E thread_id \in 1..(Len(conversations) + 1), h \in {24}, content \in {"", "S"} :
         IF thread_id \notin DOMAIN conversations
         THEN /\ last' = [op |-> "schedule_nudge", conv |-> thread_id,
                          result |-> "not_found", cancelled |-> {}, inserted |-> 0]
              /\ UNCHANGED <<conversations, nudges, messages, contacts>>
         ELSE /\ Commit(schedule_nudge(Store, thread_id, h, content, now))
              /\ last' = [op |-> "schedule_nudge", conv |-> thread_id,
                          result |-> "scheduled",
                          cancelled |-> ActiveNudges(nudges, thread_id),
                          inserted |-> Len(nudges) + 1]
    /\ UNCHANGED <<now, integration, prefs, env, pc, queue, held, sends>>

\* POST /nudges/: a new conversation and its first nudge.
NgCreate ==
    /\ Len(nudges) < MaxNudges
    /\ \E contact_id \in DOMAIN contacts :
         /\ conversations' = Append(conversations,
               [Conversation(contact_id, "pending") EXCEPT !.last_message_at = Some(now)])
         /\ nudges' = Append(nudges,
               Nudge(Len(conversations) + 1, contact_id, "pending", now + 24, "D", NULL))
    /\ last' = [op |-> "create_nudge", conv |-> Len(conversations) + 1]
    /\ UNCHANGED <<now, messages, contacts, integration, prefs, env, pc, queue, held, sends>>

\* POST /nudges/{id}/approve
NgApprove ==
    /\ \E id \in DOMAIN nudges :
         /\ nudges' = [nudges EXCEPT ![id] =
               [@ EXCEPT !.status = "approved", !.approved_content = nudges[id].draft_content]]
         /\ conversations' =
               IF nudges[id].conversation_id # 0
               THEN [conversations EXCEPT ![nudges[id].conversation_id] =
                       [@ EXCEPT !.status = "approved", !.auto_approved = TRUE]]
               ELSE conversations
         /\ last' = [op |-> "approve_nudge", nudge |-> id]
    /\ UNCHANGED <<now, messages, contacts, integration, prefs, env, pc, queue, held, sends>>

\* The nudge whose content the requests drawn change.
EditTargets == {1}

\* PUT /nudges/{id}/edit
NgEdit ==
    /\ \E id \in EditTargets \cap DOMAIN nudges, content \in {"X"} :
         /\ nudges' = [nudges EXCEPT ![id] =
               [@ EXCEPT !.draft_content = content, !.approved_content = content]]
         /\ last' = [op |-> "edit_nudge", nudge |-> id]
    /\ UNCHANGED <<now, conversations, messages, contacts, integration, prefs, env,
                   pc, queue, held, sends>>

\* The values of UpdateNudgeRequest.status drawn (None: the field is left out).
UpdateStatuses == {NULL, "pending", "cancelled"}

\* PUT /nudges/{id}/ : the fields of the request that are not None are written.
NgUpdate ==
    /\ \E id \in DOMAIN nudges, content \in {NULL, "X"}, status \in UpdateStatuses :
         /\ content # NULL \/ status # NULL
         /\ content # NULL => id \in EditTargets
         /\ nudges' = [nudges EXCEPT ![id] =
               [@ EXCEPT !.draft_content = IF content # NULL THEN content ELSE @,
                         !.approved_content = IF content # NULL THEN content ELSE @,
                         !.status = IF status # NULL THEN status ELSE @]]
         /\ last' = [op |-> "update_nudge", nudge |-> id]
    /\ UNCHANGED <<now, conversations, messages, contacts, integration, prefs, env,
                   pc, queue, held, sends>>

\* POST /nudges/{id}/cancel
NgCancel ==
    /\ \E id \in DOMAIN nudges :
         /\ nudges' = SetNudgeStatus(id, "cancelled")
         /\ last' = [op |-> "cancel_nudge", nudge |-> id]
    /\ UNCHANGED <<now, conversations, messages, contacts, integration, prefs, env,
                   pc, queue, held, sends>>

\* POST /nudges/{id}/reschedule
NgReschedule ==
    /\ \E id \in DOMAIN nudges :
         /\ nudges' = [nudges EXCEPT ![id] =
               [@ EXCEPT !.scheduled_at = now + 24, !.status = "pending"]]
         /\ last' = [op |-> "reschedule_nudge", nudge |-> id]
    /\ UNCHANGED <<now, conversations, messages, contacts, integration, prefs, env,
                   pc, queue, held, sends>>

\* POST /conversations/{id}/close
NgClose ==
    /\ \E id \in DOMAIN conversations :
         /\ conversations' = [conversations EXCEPT ![id].status = "closed"]
         /\ last' = [op |-> "close_conversation", conv |-> id]
    /\ UNCHANGED <<now, nudges, messages, contacts, integration, prefs, env,
                   pc, queue, held, sends>>

InitNudge ==
    /\ now = 0
    /\ contacts = <<Contact("+1555")>>
    /\ \E auto \in BOOLEAN :
          conversations = <<[Conversation(1, "pending") EXCEPT !.auto_approved = auto]>>
    /\ \E s1 \in {"pending", "cancelled"}, s2 \in {"pending", "approved", "sent"} :
          /\ s1 = "pending" => s2 = "sent"
          /\ nudges = <<Nudge(1, 1, s1, 24, "D", NULL),
                       Nudge(1, 1, s2, 24, "E", IF s2 = "pending" THEN NULL ELSE "E")>>
    /\ messages = <<>>
    /\ integration = Integration("tok", "pid")
    /\ prefs = NoRow
    /\ env = [token |-> "tok", phone_id |-> "pid", verify_token |-> NULL]
    /\ IdleWorkers
    /\ last = NoOp
    /\ sends = <<>>

NextNudge ==
    \/ NgSchedule \/ NgCreate \/ NgApprove \/ NgEdit \/ NgUpdate \/ NgCancel
    \/ NgReschedule \/ NgClose
SpecNudge == InitNudge /\ [][NextNudge]_vars

(***************************************************************************)
(* SpecOverlap: two calls of tools.schedule_nudge, store call by store call *)
(***************************************************************************)
\* The tool runs in the executor threads of the tool node (and in every
\* server process): its three store calls are three requests to the store.
ToolCallers == {"tool1", "tool2"}

InFlight == Cardinality({w \in ToolCallers : pc[w] # "idle"})

\* schedule_nudge, lines 25-35: the conversation is read.
ToolRead(w) ==
    /\ pc[w] = "idle"
    /\ Len(nudges) + InFlight < MaxNudges
    /\ \E thread_id \in 1..(Len(conversations) + 1), h \in {24}, content \in {"", "S"} :
         IF thread_id \notin DOMAIN conversations
         THEN /\ last' = [op |-> "schedule_nudge", conv |-> thread_id,
                          result |-> "not_found", cancelled |-> {}, inserted |-> 0]
              /\ UNCHANGED <<pc, queue>>
         ELSE /\ queue' = [queue EXCEPT ![w] =
                    <<[thread_id |-> thread_id,
                       conv |-> conversations[thread_id],
                       schedule_time |-> now + h,
                       suggested_content |-> content]>>]
              /\ pc' = [pc EXCEPT ![w] = "cancel"]
              /\ UNCHANGED last
    /\ UNCHANGED <<now, conversations, nudges, messages, contacts, integration, prefs,
                   env, held, sends>>

\* schedule_nudge, lines 39-41: the update that cancels.
ToolCancel(w) ==
    /\ pc[w] = "cancel"
    /\ nudges' = CancelActive(nudges, Head(queue[w]).thread_id)
    /\ held' = [held EXCEPT ![w] =
                   [cancelled |-> ActiveNudges(nudges, Head(queue[w]).thread_id)]]
    /\ pc' = [pc EXCEPT ![w] = "insert"]
    /\ UNCHANGED <<now, conversations, messages, contacts, integration, prefs, env,
                   queue, last, sends>>

\* schedule_nudge, lines 44-63: the insert, from the conversation as read.
ToolInsert(w) ==
    /\ pc[w] = "insert"
    /\ LET a == Head(queue[w])
           content == Or(a.suggested_content, DEFAULT_NUDGE_CONTENT)
       IN  /\ nudges' = Append(nudges,
                  Nudge(a.thread_id, a.conv.contact_id,
                        IF a.conv.auto_approved THEN "approved" ELSE "pending",
                        a.schedule_time, content,
                        IF a.conv.auto_approved THEN content ELSE NULL))
           /\ last' = [op |-> "schedule_nudge", conv |-> a.thread_id,
                       result |-> "scheduled", cancelled |-> held[w].cancelled,
                       inserted |-> Len(nudges) + 1]
    /\ pc' = [pc EXCEPT ![w] = "idle"]
    /\ queue' = [queue EXCEPT ![w] = <<>>]
    /\ held' = [held EXCEPT ![w] = NoOutcome]
    /\ UNCHANGED <<now, conversations, messages, contacts, integration, prefs, env, sends>>

OverlapClock ==
    /\ now = 0
    /\ now' = 1
    /\ UNCHANGED <<conversations, nudges, messages, contacts, integration, prefs,
                   env, pc, queue, held, last, sends>>

InitOverlap ==
    /\ now = 0
    /\ contacts = <<Contact("+1555"), Contact("+1666")>>
    /\ \E auto \in BOOLEAN :
          conversations = <<[Conversation(1, "pending") EXCEPT !.auto_approved = auto],
                            Conversation(2, "pending")>>
    /\ \E s1 \in {"pending", "approved", "sent"} :
          nudges = <<Nudge(1, 1, s1, 24, "D", IF s1 = "pending" THEN NULL ELSE "D")>>
    /\ messages = <<>>
    /\ integration = Integration("tok", "pid")
    /\ prefs = NoRow
    /\ env = [token |-> "tok", phone_id |-> "pid", verify_token |-> NULL]
    /\ IdleWorkers
    /\ last = NoOp
    /\ sends = <<>>

NextOverlap ==
    \/ OverlapClock
    \/ \E w \in ToolCallers : ToolRead(w) \/ ToolCancel(w) \/ ToolInsert(w)
SpecOverlap == InitOverlap /\ [][NextOverlap]_vars

(***************************************************************************)
(* SpecAuto: approval, schedule_nudge and the two ticks over one store     *)
(***************************************************************************)
\* Nudges the conversation gets in SpecAuto: the first draft and one follow-up.
MaxAutoNudges == 2

\* tools.schedule_nudge for the conversation, the nudge due at once.
AutoSchedule ==
    /\ Len(nudges) < MaxAutoNudges
    /\ Commit(schedule_nudge(Store, 1, 0, "S", now))
    /\ last' = [op |-> "schedule_nudge", conv |-> 1, result |-> "scheduled",
                cancelled |-> ActiveNudges(nudges, 1), inserted |-> Len(nudges) + 1]
    /\ UNCHANGED <<now, integration, prefs, env, pc, queue, held, sends>>

InitAuto ==
    /\ now = 0
    /\ contacts = <<Contact("+1555")>>
    /\ conversations = <<Conversation(1, "pending")>>
    /\ nudges = <<Nudge(1, 1, "pending", 0, "D", NULL)>>
    /\ messages = <<>>
    /\ integration = Integration("tok", "pid")
    /\ prefs \in {Preferences(TRUE), Preferences(FALSE)}
    /\ env = NoEnv
    /\ IdleWorkers
    /\ last = NoOp
    /\ sends = [i \in 1..MaxNudges |-> 0]

NextAuto ==
    \/ NgApprove \/ AutoSchedule
    \/ SchedQuery \/ SchedProcess({{}}) \/ SchedResume({{}})
    \/ CronQuery \/ CronProcess({{}}) \/ CronResume({{}})
SpecAuto == InitAuto /\ [][NextAuto]_vars

\* A tick has just ended the processing of a nudge it found approved.
TickEndedApproved ==
    /\ last' # last
    /\ last'.op = "tick"
    /\ last'.snap.status = "approved"

\* C31: once a conversation's auto_approved flag is true it never becomes
\* false again, and every nudge created afterwards for that conversation by
\* schedule_nudge starts in status approved with approved_content equal to
\* its draft content, so a tick dispatches it without consulting the
\* auto-send preference or passing through ready.
C31_AutoApprovedSticks ==
    [][/\ \A c \in DOMAIN conversations :
             conversations[c].auto_approved => conversations'[c].auto_approved
       /\ (/\ last' # last /\ last'.op = "schedule_nudge" /\ last'.result = "scheduled"
           /\ conversations[last'.conv].auto_approved) =>
              LET n == nudges'[last'.inserted]
              IN  /\ n.status = "approved"
                  /\ n.approved_content = n.draft_content
                  /\ n.approved_content # NULL
       /\ TickEndedApproved =>
              /\ last'.path \in {"sent", "send_failed"}
              /\ last'.out.calls # <<>>
              /\ nudges'[last'.nudge].status = "ready" =>
                    nudges[last'.nudge].status = "ready"]_vars

\* C31 witness: with auto-send off, a tick has sent the nudge that
\* schedule_nudge inserted, approved, after the conversation's first nudge
\* was approved.
C31_Witness ==
    /\ prefs = Preferences(FALSE)
    /\ conversations[1].auto_approved
    /\ last.op = "tick"
    /\ last.nudge = 2
    /\ last.snap.status = "approved"
    /\ last.snap.approved_content = last.snap.draft_content
    /\ last.path = "sent"
    /\ nudges[2].status = "sent"
    /\ nudges[1].status = "cancelled"

(***************************************************************************)
(* SpecClose: a conversation being closed while its nudge is dispatched    *)
(***************************************************************************)
\* process_with_ai_agent for a close decision, first store call: the
\* conversation gets the decision's status.
CloseUpdate ==
    /\ pc["hook"] = "idle"
    /\ conversations[1].status # "closed"
    /\ conversations' = [conversations EXCEPT ![1].status = "closed"]
    /\ pc' = [pc EXCEPT !["hook"] = "cancel"]
    /\ UNCHANGED <<now, nudges, messages, contacts, integration, prefs, env, queue,
                   held, last, sends>>

\* process_with_ai_agent for a close decision, second store call: the
\* pending and approved nudges of the conversation are cancelled.
CloseCancel ==
    /\ pc["hook"] = "cancel"
    /\ nudges' = CancelActive(nudges, 1)
    /\ pc' = [pc EXCEPT !["hook"] = "idle"]
    /\ last' = [op |-> "close_decision", conv |-> 1]
    /\ UNCHANGED <<now, conversations, messages, contacts, integration, prefs, env,
                   queue, held, sends>>

InitClose ==
    /\ now = 0
    /\ contacts = <<Contact("+1555")>>
    /\ conversations = <<Conversation(1, "pending")>>
    /\ \E s1 \in {"pending", "approved", "ready"} :
          nudges = <<Nudge(1, 1, s1, 0, "D", IF s1 = "approved" THEN "D" ELSE NULL)>>
    /\ messages = <<>>
    /\ integration = Integration("tok", "pid")
    /\ prefs \in {Preferences(TRUE), Preferences(FALSE)}
    /\ env = NoEnv
    /\ IdleWorkers
    /\ last = NoOp
    /\ sends = <<0>>

NextClose ==
    \/ CloseUpdate \/ CloseCancel \/ NgClose \/ NgApprove
    \/ SchedQuery \/ SchedProcess({{}}) \/ SchedResume({{}})
    \/ CronQuery \/ CronProcess({{}}) \/ CronResume({{}})
    \/ ManualSend \/ ManualResume
SpecClose == InitClose /\ [][NextClose]_vars

\* C34: no provider send is made, by a tick or by the manual send, for a
\* nudge whose conversation is closed at that moment, however the close
\* (conversation update, then nudge cancellation) interleaves with the
\* dispatchers and whatever is approved afterwards.
C34_NoSendWhenClosed ==
    [][\A i \in DOMAIN sends :
          sends'[i] > sends[i] =>
             conversations[nudges[i].conversation_id].status # "closed"]_vars

(***************************************************************************)
(* SpecHook, SpecHookFaults: POST /webhooks/whatsapp                       *)
(***************************************************************************)
MaxItems == 2

\* The first error of a failed receipt: code, title and message may each be
\* missing.
ReceiptError(code, title, message) == [code |-> code, title |-> title, message |-> message]

Receipt(id, status, errors) == [id |-> id, status |-> status, errors |-> errors]

Receipts ==
    {Receipt(id, "failed", errors) :
        id \in {"wamid.1", "wamid.2", "wamid.9"},
        errors \in {<<>>, <<ReceiptError(Some(131026), "T", "M")>>,
                    <<ReceiptError(None, NULL, "M")>>, <<ReceiptError(Some(131000), "", NULL)>>}}
    \cup {Receipt(id, status, <<>>) :
        id \in {"wamid.1", "wamid.2"}, status \in {"sent", "delivered", "read"}}
    \cup {Receipt("", "read", <<>>)}

\* The inbound messages drawn: texts (one of them a rejection), a message
\* without text, a sender that sanitizes to nothing, a new sender, and a
\* phone_number_id of no integration.
Inbound(from, type, body, phone_number_id) ==
    [message |-> [from |-> from, type |-> type, body |-> body, id |-> "wamid.in"],
     phone_number_id |-> phone_number_id]

Inbounds ==
    {Inbound("1555", "text", "hello", "pid"), Inbound("1555", "text", "STOP please", "pid"),
     Inbound("1555", "image", "", "pid"), Inbound("abc", "text", "hello", "pid"),
     Inbound("1777", "text", "hello", "pid"), Inbound("1555", "text", "hello", "zzz")}

\* The runs of the agent drawn: any decision without a tool call, a call of
\* schedule_nudge before a decision, a run that raises (after a tool call
\* or without one).
AgentRuns ==
    LET tool == Some([hours |-> 24, content |-> ""])
    IN  {AgentRun(None, FALSE, d) : d \in Decisions}
        \cup {AgentRun(tool, FALSE, d) :
                d \in {Decision("wait", Some(24), "pending"), Decision("close", None, "closed")}}
        \cup {AgentRun(None, TRUE, FALLBACK_RESPONSE), AgentRun(tool, TRUE, FALLBACK_RESPONSE)}

\* The runs drawn while a store call fails.
FaultRuns ==
    {AgentRun(None, FALSE, Decision("close", None, "closed")),
     AgentRun(Some([hours |-> 24, content |-> ""]), FALSE, Decision("wait", Some(24), "pending")),
     AgentRun(None, TRUE, FALLBACK_RESPONSE)}

\* The store calls of the two handlers that can fail.
StatusSteps == {"msg_update", "sync_nudge", "sync_conversation"}
MessageSteps ==
    {"find_user", "contact", "conversation", "insert", "update", "read_status",
     "conv_update", "cancel", "contact_read"}
NoFaults == {{}}
OneFault(steps) == {{}} \cup {{x} : x \in steps}

\* webhook_receive up to its first handler: the statuses, then the messages.
\* One request is followed from each store.
HookReceive ==
    /\ pc["hook"] = "idle"
    /\ \E ns \in 0..MaxItems, nm \in 0..MaxItems :
         /\ ns + nm <= MaxItems
         /\ queue' = [queue EXCEPT !["hook"] =
                         [i \in 1..(ns + nm) |-> IF i <= ns THEN "status" ELSE "message"]]
         /\ IF ns + nm = 0
            THEN /\ last' = [op |-> "webhook", response |-> "ok", processed |-> 0,
                              total |-> 0, faulted |-> 0]
                 /\ pc' = [pc EXCEPT !["hook"] = "done"]
                 /\ UNCHANGED held
            ELSE /\ pc' = [pc EXCEPT !["hook"] = "loop"]
                 /\ held' = [held EXCEPT !["hook"] =
                                [processed |-> 0, total |-> ns + nm, faulted |-> 0]]
                 /\ UNCHANGED last
    /\ UNCHANGED <<now, conversations, nudges, messages, contacts, integration,
                   prefs, env, sends>>

\* The handler of one item returned or raised: the loop goes on, ends with
\* {"status": "ok"}, or the exception leaves webhook_receive.
HookAfter(x, op, item, f, run) ==
    LET left == Tail(queue["hook"])
        over == x.raised \/ left = <<>>
        faulted == held["hook"].faulted + (IF f = {} THEN 0 ELSE 1)
    IN  /\ Commit(x.S)
        /\ queue' = [queue EXCEPT !["hook"] = IF x.raised THEN <<>> ELSE left]
        /\ pc' = [pc EXCEPT !["hook"] = IF over THEN "done" ELSE "loop"]
        /\ held' = [held EXCEPT !["hook"] =
                      IF over THEN NoOutcome
                      ELSE [@ EXCEPT !.processed = @ + 1, !.faulted = faulted]]
        /\ last' = [op |-> op, item |-> item, run |-> run, conv |-> x.conv,
                    last_status |-> x.last_status, decision |-> x.decision,
                    reply |-> x.reply.ok, processed |-> held["hook"].processed + 1,
                    total |-> held["hook"].total, faulted |-> faulted,
                    response |-> IF x.raised THEN "error"
                                 ELSE IF left = <<>> THEN "ok" ELSE "none"]

HookStatus(F) ==
    /\ pc["hook"] = "loop"
    /\ Head(queue["hook"]) = "status"
    /\ \E status \in Receipts, f \in F :
         /\ f # {} => status.id = "wamid.1" /\ Len(status.errors) <= 1 /\ status.status \in {"failed", "delivered"}
         /\ HookAfter(handle_status_update(Store, status, f, now), "status", status, f, None)
    /\ UNCHANGED <<now, integration, prefs, env, sends>>

HookMessage(F) ==
    /\ pc["hook"] = "loop"
    /\ Head(queue["hook"]) = "message"
    /\ \E in \in Inbounds, agent \in AgentRuns, r \in ReplyResponses, f \in F :
         /\ agent.tool # None => Len(nudges) <= MaxNudges
         /\ f # {} => /\ in = Inbound("1555", "text", "hello", "pid")
                       /\ agent \in FaultRuns
                       /\ r = HttpAnswer(200, "json", "wamid.r")
         /\ HookAfter(handle_incoming_message(Store, in.message, in.phone_number_id,
                                              f, agent, r, now),
                      "inbound", in.message, f,
                      Some([tool |-> agent.tool, fails |-> agent.fails]))
    /\ UNCHANGED <<now, integration, prefs, env, sends>>

InitHook ==
    /\ now = 1
    /\ contacts = <<Contact("+1555"), Contact("+1666")>>
    /\ \E s1 \in {"approved", "awaiting"} :
          conversations = <<Conversation(1, s1), Conversation(2, "awaiting")>>
    /\ \E a \in {"sent", "pending"}, b \in {"sent", "approved"} :
          nudges = <<[Nudge(1, 1, a, 0, "D", IF a = "pending" THEN NULL ELSE "D")
                         EXCEPT !.sent_at = IF a = "sent" THEN Some(0) ELSE None],
                     [Nudge(1, 1, b, 0, "E", "E")
                         EXCEPT !.sent_at = IF b = "sent" THEN Some(0) ELSE None],
                     [Nudge(2, 2, "sent", 0, "F", "F") EXCEPT !.sent_at = Some(0)]>>
    /\ messages = <<Message(1, 1, "outgoing", "D", "wamid.1", "sent", 0),
                    Message(2, 2, "outgoing", "F", "wamid.2", "sent", 0)>>
    /\ integration = Integration("tok", "pid")
    /\ prefs = NoRow
    /\ env = [token |-> "tok", phone_id |-> "pid", verify_token |-> NULL]
    /\ IdleWorkers
    /\ last = NoOp
    /\ sends = <<>>

NextHook == HookReceive \/ HookStatus(NoFaults) \/ HookMessage(NoFaults)
SpecHook == InitHook /\ [][NextHook]_vars

NextHookFaults ==
    HookReceive \/ HookStatus(SUBSET StatusSteps) \/ HookMessage(OneFault(MessageSteps))
SpecHookFaults == InitHook /\ [][NextHookFaults]_vars

(***************************************************************************)
(* SpecInbound: two inbound messages of one new sender, each handled by    *)
(* its own webhook request, store call by store call                       *)
(***************************************************************************)
InboundHandlers == {"hook", "hook2"}
NewSender == "1777"
InboundId(w) == IF w = "hook" THEN "wamid.a" ELSE "wamid.b"

\* get_or_create_contact, the select.
InContactSelect(w) ==
    /\ pc[w] = "idle"
    /\ LET safe_phone == sanitize_phone_number(NewSender)
           search_number == IF StartsWithPlus(safe_phone) THEN safe_phone
                            ELSE WithPlus(safe_phone)
           found == {i \in DOMAIN contacts :
                        contacts[i].phone_number \in {search_number, safe_phone}}
       IN  /\ held' = [held EXCEPT ![w] =
                          [contact |-> IF found = {} THEN 0 ELSE Min(found), conv |-> 0]]
           /\ pc' = [pc EXCEPT ![w] = IF found = {} THEN "contact_insert" ELSE "conv_select"]
    /\ UNCHANGED <<now, conversations, nudges, messages, contacts, integration, prefs,
                   env, queue, last, sends>>

\* get_or_create_contact, the insert.  The store takes the row, or, a row
\* with this number being there by now, may refuse it (a unique index):
\* the exception is caught, None is returned and the handler ends.
InContactInsert(w) ==
    /\ pc[w] = "contact_insert"
    /\ LET search_number == WithPlus(sanitize_phone_number(NewSender))
           known == \E i \in DOMAIN contacts : contacts[i].phone_number = search_number
       IN  \E refused \in {FALSE, known} :
             IF refused
             THEN /\ pc' = [pc EXCEPT ![w] = "done"]
                  /\ last' = [op |-> "inbound", worker |-> w, stored |-> FALSE]
                  /\ UNCHANGED <<contacts, held>>
             ELSE /\ contacts' = Append(contacts, Contact(search_number))
                  /\ held' = [held EXCEPT ![w].contact = Len(contacts) + 1]
                  /\ pc' = [pc EXCEPT ![w] = "conv_select"]
                  /\ UNCHANGED last
    /\ UNCHANGED <<now, conversations, nudges, messages, integration, prefs, env,
                   queue, sends>>

\* get_or_create_conversation, the select.
InConversationSelect(w) ==
    /\ pc[w] = "conv_select"
    /\ LET found == {i \in DOMAIN conversations :
                        /\ conversations[i].contact_id = held[w].contact
                        /\ conversations[i].status # "resolved"}
       IN  /\ held' = [held EXCEPT ![w].conv = IF found = {} THEN 0 ELSE Max(found)]
           /\ pc' = [pc EXCEPT ![w] = IF found = {} THEN "conv_insert" ELSE "store"]
    /\ UNCHANGED <<now, conversations, nudges, messages, contacts, integration, prefs,
                   env, queue, last, sends>>

\* get_or_create_conversation, the insert.
InConversationInsert(w) ==
    /\ pc[w] = "conv_insert"
    /\ conversations' = Append(conversations, Conversation(held[w].contact, "active"))
    /\ held' = [held EXCEPT ![w].conv = Len(conversations) + 1]
    /\ pc' = [pc EXCEPT ![w] = "store"]
    /\ UNCHANGED <<now, nudges, messages, contacts, integration, prefs, env, queue,
                   last, sends>>

\* handle_incoming_message, steps 4 and 5: the message row and the
\* conversation's needs_response.
InStore(w) ==
    /\ pc[w] = "store"
    /\ messages' = Append(messages,
          Message(held[w].conv, held[w].contact, "incoming", "hello", InboundId(w),
                  "delivered", now))
    /\ conversations' = [conversations EXCEPT ![held[w].conv] =
          [@ EXCEPT !.last_message_at = Some(now), !.status = "needs_response"]]
    /\ pc' = [pc EXCEPT ![w] = "done"]
    /\ last' = [op |-> "inbound", worker |-> w, stored |-> TRUE]
    /\ UNCHANGED <<now, nudges, contacts, integration, prefs, env, queue, held, sends>>

InitInbound ==
    /\ now = 1
    /\ contacts \in {<<>>, <<Contact("+1555")>>}
    /\ conversations \in {<<>>, <<Conversation(1, "awaiting")>>, <<Conversation(1, "closed")>>}
    /\ conversations # <<>> => contacts # <<>>
    /\ nudges = <<>>
    /\ messages = <<>>
    /\ integration = Integration("tok", "pid")
    /\ prefs = NoRow
    /\ env = NoEnv
    /\ IdleWorkers
    /\ last = NoOp
    /\ sends = <<>>

NextInbound ==
    \E w \in InboundHandlers :
       \/ InContactSelect(w) \/ InContactInsert(w)
       \/ InConversationSelect(w) \/ InConversationInsert(w)
       \/ InStore(w)
SpecInbound == InitInbound /\ [][NextInbound]_vars

\* C38: when both handlers are through, the new sender has exactly one
\* contact and exactly one conversation that is not closed, and both
\* incoming messages are attached to that conversation.
C38_OneContactOneConversation ==
    (\A w \in InboundHandlers : pc[w] = "done") =>
       LET cs == {i \in DOMAIN contacts : contacts[i].phone_number = "+1777"}
           vs == {v \in DOMAIN conversations :
                    /\ conversations[v].contact_id \in cs
                    /\ conversations[v].status # "closed"}
       IN  /\ Cardinality(cs) = 1
           /\ Cardinality(vs) = 1
           /\ \A w \in InboundHandlers :
                 \E i \in DOMAIN messages :
                    /\ messages[i].whatsapp_message_id = InboundId(w)
                    /\ messages[i].conversation_id \in vs

(***************************************************************************)
(* SpecRace: the provider's receipts arriving while a dispatcher is        *)
(* between its send and its store calls                                    *)
(***************************************************************************)
InitRace ==
    /\ now = 0
    /\ contacts = <<Contact("+1555")>>
    /\ conversations = <<Conversation(1, "pending")>>
    /\ nudges = <<Nudge(1, 1, "approved", 0, "D", "D")>>
    /\ messages \in {<<>>, <<Message(1, 1, "incoming", "hi", "wamid.in", "delivered", 0)>>}
    /\ integration = Integration("tok", "pid")
    /\ prefs = NoRow
    /\ env = NoEnv
    /\ IdleWorkers
    /\ last = NoOp
    /\ sends = <<0>>

NextRace ==
    \/ SchedQuery \/ SchedProcess({{}}) \/ SchedResume({{}})
    \/ CronQuery \/ CronProcess({{}}) \/ CronResume({{}})
    \/ ManualSend \/ ManualResume
    \/ HookReceive \/ HookStatus(NoFaults)
SpecRace == InitRace /\ [][NextRace]_vars

\* A dispatcher inserts the Message row of a send whose receipt was the
\* last thing handled, no row carrying that id before.
RowInsertedAfterReceipt ==
    /\ Len(messages') = Len(messages) + 1
    /\ messages'[Len(messages')].direction = "outgoing"
    /\ last.op = "status"
    /\ last.item.id = messages'[Len(messages')].whatsapp_message_id
    /\ \A i \in DOMAIN messages : messages[i].whatsapp_message_id # last.item.id

\* C37: a receipt handled after the provider accepted the send and before
\* the dispatcher inserted the Message row is not lost: the row inserted
\* has the receipt's status, and a failed receipt leaves the nudge failed.
C37_ReceiptNotLost ==
    [][RowInsertedAfterReceipt =>
          LET m == messages'[Len(messages')]
          IN  /\ m.status = last.item.status
              /\ last.item.status = "failed" =>
                    \A i \in DOMAIN nudges' :
                       nudges'[i].conversation_id = m.conversation_id =>
                          nudges'[i].status = "failed"]_vars

(***************************************************************************)
(* SpecReceipt: status receipts for conversations in every status          *)
(***************************************************************************)
ConversationStatuses ==
    {"pending", "approved", "awaiting", "needs_response", "promised", "escalated",
     "closed"}

InitReceipt ==
    /\ now = 1
    /\ contacts = <<Contact("+1555"), Contact("+1666")>>
    /\ \E s1 \in ConversationStatuses, s2 \in {"pending", "closed"} :
          conversations = <<Conversation(1, s1), Conversation(2, s2)>>
    /\ \E a \in {"sent", "pending"}, b \in {"sent", "approved"} :
          nudges = <<[Nudge(1, 1, a, 0, "D", IF a = "pending" THEN NULL ELSE "D")
                         EXCEPT !.sent_at = IF a = "sent" THEN Some(0) ELSE None],
                     [Nudge(2, 2, b, 0, "F", "F")
                         EXCEPT !.sent_at = IF b = "sent" THEN Some(0) ELSE None]>>
    /\ messages = <<Message(1, 1, "outgoing", "D", "wamid.1", "sent", 0),
                    Message(2, 2, "outgoing", "F", "wamid.2", "sent", 0)>>
    /\ integration = Integration("tok", "pid")
    /\ prefs = NoRow
    /\ env = [token |-> "tok", phone_id |-> "pid", verify_token |-> NULL]
    /\ IdleWorkers
    /\ last = NoOp
    /\ sends = <<>>

NextReceipt == HookReceive \/ HookStatus(NoFaults)
SpecReceipt == InitReceipt /\ [][NextReceipt]_vars

\* A sent, delivered or read receipt has just been handled.
ProgressReceiptHandled ==
    /\ last' # last
    /\ last'.op = "status"
    /\ last'.item.status \in {"sent", "delivered", "read"}

\* The conversations of the stored messages that carry the receipt's id.
ReceiptConversations(item) ==
    {messages[i].conversation_id :
        i \in {j \in DOMAIN messages : messages[j].whatsapp_message_id = item.id}}

\* C26: a delivered receipt for a known message changes the conversation's
\* status to awaiting only when that status is pending or approved; a
\* conversation in needs_response, promised, escalated, closed or awaiting
\* keeps its status, and no nudge is changed by a delivered, sent or read
\* receipt.
C26_DeliveredAdvances ==
    [][ProgressReceiptHandled =>
        /\ nudges' = nudges
        /\ \A c \in DOMAIN conversations :
              conversations'[c] =
                IF /\ last'.item.status = "delivered"
                   /\ c \in ReceiptConversations(last'.item)
                   /\ conversations[c].status \in {"pending", "approved"}
                THEN [conversations[c] EXCEPT !.status = "awaiting"]
                ELSE conversations[c]]_vars

\* C26 witness: of two delivered receipts of one request the first moved
\* conversation 2 from pending to awaiting, the second left conversation 1
\* escalated; the nudges are as they were.
C26_Witness ==
    /\ last.op = "status"
    /\ last.item = Receipt("wamid.1", "delivered", <<>>)
    /\ last.processed = 2
    /\ messages[1].status = "delivered"
    /\ messages[2].status = "delivered"
    /\ conversations[1].status = "escalated"
    /\ conversations[2].status = "awaiting"
    /\ nudges[1].status = "pending"
    /\ nudges[2].status = "approved"

\* C35: a message's delivery status never regresses, in whatever order
\* the receipts for its provider id arrive: read is not set back to
\* delivered or sent, delivered is not set back to sent.
C35_StatusNeverRegresses ==
    [][\A i \in DOMAIN messages :
          /\ messages[i].status = "read" =>
                messages'[i].status \notin {"delivered", "sent"}
          /\ messages[i].status = "delivered" => messages'[i].status # "sent"]_vars

(***************************************************************************)
(* SpecVerify: GET /webhooks/whatsapp, the verification handshake          *)
(***************************************************************************)
\* The query parameters drawn; NULL is a parameter left out, "" one given
\* without a value.
HubModes == {NULL, "subscribe", "unsubscribe"}
HubTokens == {NULL, "", "secret", "wrong"}
HubChallenges == {NULL, "c1", "c2", "c3"}

\* webhook_verify: the status code and the body of the answer.
webhook_verify(hub_mode, hub_verify_token, hub_challenge) ==
    LET verify_token == Or(env.verify_token, "")
    IN  IF hub_mode = "subscribe" /\ hub_verify_token = verify_token
        THEN [code |-> 200, body |-> hub_challenge]
        ELSE [code |-> 403, body |-> "Forbidden"]

VerifyGet ==
    /\ \E hub_mode \in HubModes, hub_verify_token \in HubTokens,
          hub_challenge \in HubChallenges :
          last' = [op |-> "webhook_verify", hub_mode |-> hub_mode,
                   hub_verify_token |-> hub_verify_token,
                   hub_challenge |-> hub_challenge,
                   answer |-> webhook_verify(hub_mode, hub_verify_token, hub_challenge)]
    /\ UNCHANGED <<now, conversations, nudges, messages, contacts, integration,
                   prefs, env, pc, queue, held, sends>>

InitVerify ==
    /\ now = 0
    /\ conversations = <<>> /\ nudges = <<>> /\ messages = <<>> /\ contacts = <<>>
    /\ integration = NoRow /\ prefs = NoRow
    /\ env \in [token : {"tok"}, phone_id : {"pid"}, verify_token : {NULL, "", "secret"}]
    /\ IdleWorkers
    /\ last = NoOp
    /\ sends = <<>>

NextVerify == VerifyGet
SpecVerify == InitVerify /\ [][NextVerify]_vars

\* C18: the verification GET returns the hub.challenge value if and only if
\* hub.mode is subscribe and hub.verify_token equals a configured secret; in
\* every other case (wrong mode, wrong or missing token, no secret
\* configured) it answers HTTP 403.
C18_VerifyGuarded ==
    last.op = "webhook_verify" =>
        IF /\ last.hub_mode = "subscribe"
           /\ env.verify_token \notin {NULL, ""}
           /\ last.hub_verify_token = env.verify_token
        THEN last.answer = [code |-> 200, body |-> last.hub_challenge]
        ELSE last.answer.code = 403

(***************************************************************************)
(* routers/messages.py: POST /messages/{id}/retry (SpecRetry)              *)
(***************************************************************************)
DEFAULT_MAX_RETRIES == 3

\* original_msg.get("retry_count", 0) or 0
RetryCount(row) ==
    IF row.retry_count = None \/ row.retry_count = Some(0) THEN 0 ELSE row.retry_count[1]

\* original_msg.get("max_retries", 3) or 3
MaxRetries(row) ==
    IF row.max_retries = None \/ row.max_retries = Some(0)
    THEN DEFAULT_MAX_RETRIES ELSE row.max_retries[1]

\* The check with the limit itself still let through.
LimitExceeded(retry_count, max_retries) == retry_count > max_retries
\* if retry_count >= max_retries
LimitReached(retry_count, max_retries) == retry_count >= max_retries

\* The provider's answers to a retried send: those of a tick, and a request
\* error whose str(e) is empty (a timeout raised without a message).
RetryResponses == TickResponses \cup {TransportFailure("")}

RetryReply(id, before, code, detail, can_retry, dispatched) ==
    [op |-> "retry_message", id |-> id, before |-> before, code |-> code,
     detail |-> detail, can_retry |-> can_retry, dispatched |-> dispatched]

\* retry_message up to the awaited send, or to the HTTPException that ends it,
\* in the request served by worker w.
RetryBeginBy(w) ==
    /\ pc[w] = "idle"
    /\ \E id \in 1..(Len(messages) + 1), ig \in SingleOutcomes(integration) :
         LET Reject(code, detail) ==
                 /\ last' = RetryReply(id, IF id \in DOMAIN messages THEN messages[id] ELSE NoRow,
                                       code, detail, None, 0)
                 /\ UNCHANGED <<pc, queue, held, sends>>
         IN  IF id \notin DOMAIN messages THEN Reject(404, "not found")
             ELSE LET original_msg == messages[id]
                      contact_id == original_msg.contact_id
                      nudge_data == [approved_content |-> original_msg.content,
                                     draft_content |-> NULL,
                                     conversation_id |-> original_msg.conversation_id]
                  IN  IF original_msg.status # "failed" THEN Reject(400, "only failed")
                      ELSE IF LimitReached(RetryCount(original_msg), MaxRetries(original_msg))
                      THEN Reject(400, "limit reached")
                      ELSE IF contact_id = 0 THEN Reject(400, "no contact")
                      ELSE IF ~Truthy(contacts[contact_id].phone_number)
                      THEN Reject(400, "no phone")
                      ELSE IF ig = "raises" THEN Reject(500, "integration lookup")
                      ELSE IF ig = "none" THEN Reject(400, "not configured")
                      ELSE IF CredentialsMissing(integration)
                      THEN Reject(400, "credentials incomplete")
                      ELSE /\ \E rs \in Answers(RetryResponses, messages, now, nudge_data,
                                                contacts[contact_id].phone_number,
                                                integration.access_token,
                                                integration.phone_number_id, FALSE) :
                                LET out == send_smart_nudge(messages, now, nudge_data,
                                               contacts[contact_id].phone_number,
                                               integration.access_token,
                                               integration.phone_number_id, FALSE, rs)
                                IN  /\ held' = [held EXCEPT ![w] = out]
                                    /\ sends' = CountSend(id, out)
                           /\ queue' = [queue EXCEPT ![w] =
                                           <<[id |-> id, row |-> original_msg]>>]
                           /\ pc' = [pc EXCEPT ![w] = "await"]
                           /\ UNCHANGED last
    /\ UNCHANGED <<now, conversations, nudges, messages, contacts, integration,
                   prefs, env>>

\* retry_message after the send returned or raised DeliveryError.
RetryResumeBy(w) ==
    /\ pc[w] = "await"
    /\ LET q == Head(queue[w])
           out == held[w]
           retry_count == RetryCount(q.row)
           max_retries == MaxRetries(q.row)
       IN  IF out.ok
           THEN /\ messages' = [messages EXCEPT ![q.id] =
                      [@ EXCEPT !.status = "sent",
                                !.whatsapp_message_id = out.result[1].message_id,
                                !.retry_count = Some(retry_count + 1),
                                !.sent_at = Some(now),
                                !.error_code = NULL,
                                !.error_message = NULL,
                                !.failed_at = None]]
                /\ last' = RetryReply(q.id, q.row, 200, "sent", None, Len(out.calls))
           ELSE /\ messages' = [messages EXCEPT ![q.id] =
                      [@ EXCEPT !.retry_count = Some(retry_count + 1),
                                !.error_code = ErrorCode(out.error[1]),
                                !.error_message = out.error[1].message,
                                !.failed_at = Some(now)]]
                /\ last' = RetryReply(q.id, q.row, 500, "delivery error",
                                      Some((retry_count + 1) < max_retries), Len(out.calls))
    /\ Advance(w)
    /\ held' = [held EXCEPT ![w] = NoOutcome]
    /\ UNCHANGED <<now, conversations, nudges, contacts, integration, prefs, env, sends>>

\* One retry request at a time.
RetryBegin == RetryBeginBy("retry")
RetryResume == RetryResumeBy("retry")

RetryClock ==
    /\ now < 2
    /\ now' = now + 1
    /\ UNCHANGED <<conversations, nudges, messages, contacts, integration, prefs,
                   env, pc, queue, held, last, sends>>

InitRetry ==
    /\ now = 1
    /\ contacts = <<Contact("+1555"), Contact(NULL)>>
    /\ conversations = <<Conversation(1, "awaiting")>>
    /\ nudges = <<>>
    /\ \E contact_id \in {1, 2}, rc \in {None, Some(1)},
          mr \in {None, Some(0), Some(1), Some(2)}, inbound \in BOOLEAN :
          /\ mr = Some(0) => rc = None
          /\ messages =
            <<[Message(1, contact_id, "outgoing", "D", NULL, "failed", 0)
                  EXCEPT !.failed_at = Some(0), !.error_code = "400",
                         !.error_message = "{error: 131000}",
                         !.retry_count = rc, !.max_retries = mr]>>
              \o (IF inbound
                  THEN <<Message(1, 1, "incoming", "hi", "wamid.in", "delivered", 0)>>
                  ELSE <<>>)
    /\ integration \in {NoRow, Integration("tok", "pid"), Integration("tok", NULL)}
    /\ prefs = NoRow
    /\ env = NoEnv
    /\ IdleWorkers
    /\ last = NoOp
    /\ sends = [i \in 1..2 |-> 0]

NextRetry == RetryBegin \/ RetryResume \/ RetryClock
SpecRetry == InitRetry /\ [][NextRetry]_vars

\* Two retry requests for the same message under way at once (a double
\* click, a client that repeats the request).
SecondBegin == RetryBeginBy("retry2")
SecondResume == RetryResumeBy("retry2")

InitRetryPair ==
    /\ now = 1
    /\ contacts = <<Contact("+1555")>>
    /\ conversations = <<Conversation(1, "awaiting")>>
    /\ nudges = <<>>
    /\ \E mr \in {Some(1), Some(2)} :
          messages =
            <<[Message(1, 1, "outgoing", "D", NULL, "failed", 0)
                  EXCEPT !.failed_at = Some(0), !.error_code = "400",
                         !.error_message = "{error: 131000}",
                         !.retry_count = None, !.max_retries = mr]>>
    /\ integration = Integration("tok", "pid")
    /\ prefs = NoRow
    /\ env = NoEnv
    /\ IdleWorkers
    /\ last = NoOp
    /\ sends = [i \in 1..2 |-> 0]

NextRetryPair == RetryBegin \/ RetryResume \/ SecondBegin \/ SecondResume
SpecRetryPair == InitRetryPair /\ [][NextRetryPair]_vars

(***************************************************************************)
(* Claims on the dispatchers (SpecTick)                                    *)
(***************************************************************************)
\* C3: at most one delivery per nudge: whichever of the in-process tick, the
\* cron tick and the manual send work on the same nudge, and however they
\* overlap, the provider send is invoked at most once for that nudge.
C3_AtMostOneDelivery == \A i \in DOMAIN sends : sends[i] <= 1

\* A tick has just finished sending a nudge it found approved, for a
\* conversation without any incoming message.
TickSentApproved ==
    /\ last' # last
    /\ last'.op = "tick"
    /\ last'.path = "sent"
    /\ last'.snap.status = "approved"
    /\ LastIncoming(messages, last'.snap.conversation_id) = {}

\* C7: a tick (of either implementation) that sends a due approved nudge of a
\* conversation that never received an inbound message sends a template and,
\* the send having succeeded, leaves the nudge sent with sent_at stamped, one
\* new outgoing Message row with status sent, and the conversation awaiting
\* with last_message_at updated.
C7_TickSuccessEffects ==
    [][TickSentApproved =>
        LET c == last'.snap.conversation_id
        IN  /\ last'.out.calls[1].type = "template"
            /\ nudges'[last'.nudge].status = "sent"
            /\ nudges'[last'.nudge].sent_at = Some(now)
            /\ Len(messages') = Len(messages) + 1
            /\ messages'[Len(messages')].direction = "outgoing"
            /\ messages'[Len(messages')].status = "sent"
            /\ messages'[Len(messages')].conversation_id = c
            /\ conversations'[c].status = "awaiting"
            /\ conversations'[c].last_message_at = Some(now)]_vars

\* What both tick implementations do bring about in the case of C7.
C7_TickStoreEffects ==
    [][TickSentApproved =>
        LET c == last'.snap.conversation_id
        IN  /\ last'.out.calls[1].type = "template"
            /\ nudges'[last'.nudge].status = "sent"
            /\ nudges'[last'.nudge].sent_at = Some(now)
            /\ Len(messages') = Len(messages) + 1
            /\ messages'[Len(messages')].direction = "outgoing"
            /\ messages'[Len(messages')].status = "sent"
            /\ messages'[Len(messages')].conversation_id = c
            /\ UNCHANGED conversations]_vars

\* C15: within one tick a failure while one due nudge is processed
\* (preference lookup, integration lookup, send or store write raising)
\* never keeps the remaining due nudges from being processed: the nudges
\* of the due query are handed to process_single_nudge one by one, each
\* once, and the tick only ends after the last of them; the cron tick
\* counts every one of them as processed or as an error.
C15_FailuresIsolated ==
    [][\A w \in {"sched", "cron"} :
          (pc[w] \in {"loop", "await"} /\ queue'[w] # queue[w]) =>
              /\ last'.nudge = Head(queue[w]).id
              /\ queue'[w] = Tail(queue[w])
              /\ pc'[w] = "idle" <=> Tail(queue[w]) = <<>>
              /\ w = "cron" =>
                    last'.processed + last'.errors + Len(queue'[w]) = last'.due]_vars

\* C15 witness: a cron tick with two due nudges has ended; processing the
\* first raised (counted as an error), the second was sent.
C15_Witness ==
    /\ pc["cron"] = "idle"
    /\ last.op = "tick"
    /\ last.worker = "cron"
    /\ last.due = 2
    /\ last.errors = 1
    /\ last.processed = 1
    /\ last.path = "sent"
    /\ nudges[last.nudge].status = "sent"

\* Worker w, in the loop of its tick, takes a step.
TickStep(w) ==
    /\ pc[w] \in {"loop", "await"}
    /\ pc'[w] # pc[w] \/ queue'[w] # queue[w]

\* Worker w runs the query of its tick and finds nudges.
TickQueryStep(w) ==
    /\ pc[w] = "idle"
    /\ pc'[w] = "loop"

\* C24: a scheduler or cron tick dispatches or modifies only nudges that, at
\* query time, have status pending or approved and scheduled_at <= now: a
\* nudge that is not yet due, or whose status is ready, sent, failed or
\* cancelled, is left unchanged by the tick and no provider send is made
\* for it.
C24_OnlyDueTouched ==
    [][\A w \in {"sched", "cron"} :
          /\ TickQueryStep(w) =>
                /\ nudges' = nudges /\ sends' = sends
                /\ \A k \in DOMAIN queue'[w] :
                      LET item == queue'[w][k]
                      IN  /\ item.row = nudges[item.id]
                          /\ nudges[item.id].status \in {"pending", "approved"}
                          /\ nudges[item.id].scheduled_at <= now
          /\ TickStep(w) =>
                LET q == Head(queue[w])
                IN  /\ q.row.status \in {"pending", "approved"}
                    /\ q.row.scheduled_at <= now
                    /\ \A i \in DOMAIN nudges :
                          i # q.id => nudges'[i] = nudges[i] /\ sends'[i] = sends[i]]_vars

\* C24 witness: a tick that ran its query at hour 0 has sent the due nudge
\* 1; nudge 2, approved but scheduled for hour 1, is as it was and no send
\* was made for it.
C24_Witness ==
    /\ now = 0
    /\ last.op = "tick"
    /\ last.nudge = 1
    /\ last.path = "sent"
    /\ pc[last.worker] = "idle"
    /\ nudges[1].status = "sent"
    /\ nudges[2] = Nudge(2, 2, "approved", 1, "E", "E")
    /\ sends[2] = 0

\* The nudges of the ticks' store.
TickNudges == {1, 2}

\* C25: under fair repeated ticks every nudge that is approved and due
\* eventually leaves {pending, approved} (it reaches sent, failed or
\* cancelled), also when the contact has no phone number, the account has
\* no integration row, or the integration lacks a credential.
C25_ApprovedDueLeaves ==
    \A i \in TickNudges :
        (nudges[i].status = "approved" /\ nudges[i].scheduled_at <= now)
            ~> (nudges[i].status \notin {"pending", "approved"})

\* C33: with ticks that do not overlap the provider send is invoked at most
\* once per nudge, and a nudge a tick has attempted (sent, failed, skipped,
\* the store update failing or not) is not selected by the next tick.
C33_TickAttemptsOnce ==
    [][/\ \A i \in DOMAIN sends' : sends'[i] <= 1
       /\ \A w \in {"sched", "cron"} :
             (TickQueryStep(w) /\ last.op = "tick") =>
                \A k \in DOMAIN queue'[w] : queue'[w][k].id # last.nudge]_vars

\* A tick has just ended the processing of a nudge with a send that failed.
TickSendFailed ==
    /\ last' # last
    /\ last'.op = "tick"
    /\ last'.path = "send_failed"

\* C14: when the dispatch of a due nudge by a tick (of either implementation)
\* fails with a DeliveryError, the nudge ends in status failed and one
\* outgoing Message row with status failed and the error detail is inserted.
C14_TickFailureRecorded ==
    [][TickSendFailed =>
        /\ nudges'[last'.nudge].status = "failed"
        /\ Len(messages') = Len(messages) + 1
        /\ messages'[Len(messages')].direction = "outgoing"
        /\ messages'[Len(messages')].status = "failed"
        /\ messages'[Len(messages')].conversation_id = last'.snap.conversation_id
        /\ messages'[Len(messages')].error_message = last'.out.error[1].message]_vars

\* A tick has just ended the processing of a nudge it found pending, the
\* account's auto-send being off or its preference row missing.
TickPendingNoAutoSend ==
    /\ last' # last
    /\ last'.op = "tick"
    /\ last'.snap.status = "pending"
    /\ prefs = NoRow \/ ~prefs.auto_send

\* C16: a due pending nudge of an account with auto-send disabled, or with
\* no preference row, is moved to ready by the tick (of either
\* implementation) and no provider send is made for it.
C16_PendingBecomesReady ==
    [][TickPendingNoAutoSend =>
        /\ IF nudges[last'.nudge].status = "pending"
           THEN nudges'[last'.nudge].status = "ready"
           ELSE nudges'[last'.nudge].status = nudges[last'.nudge].status
        /\ last'.out.calls = <<>>
        /\ sends' = sends]_vars

(***************************************************************************)
(* Claims on scheduling and closing (SpecNudge)                            *)
(***************************************************************************)
\* schedule_nudge has just completed for a conversation it found.
ScheduleCompleted ==
    /\ last' # last
    /\ last'.op = "schedule_nudge"
    /\ last'.result = "scheduled"

\* C4: after schedule_nudge completes for a conversation, every nudge of the
\* conversation that was pending or approved before the call is cancelled,
\* and exactly one nudge of the conversation, the one just inserted, is
\* pending or approved.
C4_ScheduleSupersedes ==
    [][ScheduleCompleted =>
        LET c == last'.conv
        IN  /\ \A i \in ActiveNudges(nudges, c) : nudges'[i].status = "cancelled"
            /\ Len(nudges') = Len(nudges) + 1
            /\ ActiveNudges(nudges', c) = {Len(nudges')}]_vars

\* C4 witness: a call that cancelled two earlier nudges of the conversation,
\* a pending one and an approved one, and left the new nudge as the only
\* active one.
C4_Witness ==
    /\ last.op = "schedule_nudge"
    /\ last.result = "scheduled"
    /\ \E i, j \in last.cancelled :
          /\ nudges[i].approved_content = NULL
          /\ nudges[j].approved_content # NULL
          /\ nudges[i].status = "cancelled"
          /\ nudges[j].status = "cancelled"
    /\ ActiveNudges(nudges, last.conv) = {last.inserted}

\* C5: every transition of a conversation to closed, by whichever handler,
\* leaves the closed conversation without a pending or approved nudge.
C5_ClosingCancels ==
    [][\A c \in DOMAIN conversations :
          (conversations[c].status # "closed" /\ conversations'[c].status = "closed")
              => ActiveNudges(nudges', c) = {}]_vars

\* The nudges of a conversation that are waiting to be sent.
WaitingNudges(ns, conv) ==
    {i \in DOMAIN ns : ns[i].conversation_id = conv
                       /\ ns[i].status \in {"pending", "approved", "ready"}}

\* C11: in every reachable state each conversation has at most one nudge in
\* status pending, approved or ready; no nudge endpoint brings a second nudge
\* of a conversation into that set.
C11_OneWaitingNudge ==
    \A c \in DOMAIN conversations : Cardinality(WaitingNudges(nudges, c)) <= 1

\* C13: sent, failed and cancelled are terminal for a nudge: apart from the
\* sent-to-failed cascade of a failed receipt, no operation changes the
\* status of a nudge in one of them, and no provider send is made for it.
C13_TerminalStatuses ==
    [][\A i \in DOMAIN nudges :
          nudges[i].status \in {"sent", "failed", "cancelled"} =>
              /\ \/ nudges'[i].status = nudges[i].status
                 \/ /\ last'.op = "status"
                    /\ nudges[i].status = "sent"
                    /\ nudges'[i].status = "failed"
              /\ i \in DOMAIN sends => sends'[i] = sends[i]]_vars

\* C30: a nudge's approved_content is null until the nudge is approved, is
\* set by approval to the draft content, and never changes afterwards: no
\* later edit, update, reschedule or dispatch modifies the approved_content
\* of a nudge that has been approved.
C30_ApprovedContentFrozen ==
    [][\A i \in DOMAIN nudges :
          /\ nudges[i].approved_content # NULL =>
                nudges'[i].approved_content = nudges[i].approved_content
          /\ (nudges[i].approved_content = NULL /\ nudges'[i].approved_content # NULL) =>
                /\ last'.op = "approve_nudge"
                /\ last'.nudge = i
                /\ nudges'[i].approved_content = nudges[i].draft_content]_vars

\* C32: every conversation's status is one of pending, awaiting,
\* needs_response, promised, escalated, closed, whatever route wrote it.
C32_ConversationStatusEnum ==
    \A c \in DOMAIN conversations :
       conversations[c].status \in
          {"pending", "awaiting", "needs_response", "promised", "escalated", "closed"}

\* An inbound message has just been handled up to the decision call, and
\* the decision call failed.
DecisionCallFailed ==
    /\ last' # last
    /\ last'.op = "inbound"
    /\ last'.conv # 0
    /\ last'.run[1].fails

\* The handler used the default outcome: the conversation is pending with
\* next_action_at 24 hours ahead, and the request goes on.
DefaultOutcomeUsed ==
    /\ last'.decision = Some(Decision("wait", Some(24), "pending"))
    /\ conversations'[last'.conv].status = "pending"
    /\ conversations'[last'.conv].next_action_at = Some(now + 24)
    /\ last'.response # "error"

\* C19 as stated: when the decision call fails while an inbound message is
\* handled, the default outcome (wait, 24 hours, pending) is used, the
\* conversation ends pending with next_action_at set, no nudge is cancelled,
\* and the webhook still acknowledges.
C19_FallbackAsStated ==
    [][DecisionCallFailed =>
        /\ DefaultOutcomeUsed
        /\ \A i \in DOMAIN nudges :
              nudges[i].status # "cancelled" => nudges'[i].status # "cancelled"]_vars

\* C19 amended: the same, the handler itself cancelling no nudge: the nudges
\* only change when the failed run had called schedule_nudge before it
\* failed, whose writes stay (the pending and approved nudges of the
\* conversation superseded, the new nudge inserted).
C19_FallbackOnFailure ==
    [][DecisionCallFailed =>
        /\ DefaultOutcomeUsed
        /\ IF last'.run[1].tool = None \/ IsRejection(last'.item.body)
           THEN nudges' = nudges
           ELSE /\ Len(nudges') = Len(nudges) + 1
                /\ ActiveNudges(nudges', last'.conv) = {Len(nudges')}
                /\ \A i \in DOMAIN nudges :
                      nudges'[i] =
                        IF i \in ActiveNudges(nudges, last'.conv)
                        THEN [nudges[i] EXCEPT !.status = "cancelled"]
                        ELSE nudges[i]]_vars

\* C19 witness: a decision call failed without a tool call; the conversation
\* is pending with next_action_at set, its approved nudge still approved,
\* and the request was answered ok.
C19_Witness ==
    /\ last.op = "inbound"
    /\ last.conv = 1
    /\ last.run[1].fails
    /\ last.run[1].tool = None
    /\ last.decision = Some(Decision("wait", Some(24), "pending"))
    /\ conversations[1].status = "pending"
    /\ conversations[1].next_action_at = Some(now + 24)
    /\ nudges[2].status = "approved"
    /\ last.response = "ok"

\* C12: cancel-on-supersede is atomic with the insert: however two calls of
\* schedule_nudge for the same conversation interleave, once both have
\* completed at most one nudge of that conversation is pending or approved.
C12_SupersedeAtomic ==
    (\A w \in ToolCallers : pc[w] = "idle") =>
        \A c \in DOMAIN conversations : Cardinality(ActiveNudges(nudges, c)) <= 1

(***************************************************************************)
(* Claims on the webhook (SpecHook, SpecHookFaults)                        *)
(***************************************************************************)
\* An inbound message has just been handled and the decision was close.
InboundDecidedClose ==
    /\ last' # last
    /\ last'.op = "inbound"
    /\ last'.decision # None
    /\ last'.decision[1].action = "close"

\* C8: when an inbound message is handled and the decision's action is close,
\* the conversation is closed afterwards, every nudge of it that was pending
\* or approved is cancelled, and none of its nudges is pending or approved.
C8_CloseDecisionCloses ==
    [][InboundDecidedClose =>
        LET c == last'.conv
        IN  /\ conversations'[c].status = "closed"
            /\ \A i \in ActiveNudges(nudges, c) : nudges'[i].status = "cancelled"
            /\ ActiveNudges(nudges', c) = {}]_vars

\* What the handler does bring about when the decision's action is close:
\* the nudges are cancelled, the status is the decision's new_status.
C8_CloseDecisionCancels ==
    [][InboundDecidedClose =>
        LET c == last'.conv
        IN  /\ conversations'[c].status = last'.decision[1].new_status
            /\ \A i \in ActiveNudges(nudges, c) : nudges'[i].status = "cancelled"
            /\ ActiveNudges(nudges', c) = {}]_vars

\* An inbound message has just been handled and a decision was applied.
InboundDecided ==
    /\ last' # last
    /\ last'.op = "inbound"
    /\ last'.conv # 0
    /\ last'.decision # None

\* C27: after an inbound message is handled, the conversation's
\* next_action_at reflects the decision's wait-hours: a non-null value sets
\* it to now plus that many hours, a null value clears it (next_action_at is
\* null afterwards even if it was set before).
C27_NextActionFollowsDecision ==
    [][InboundDecided =>
        LET d == last'.decision[1]
        IN  conversations'[last'.conv].next_action_at =
              (IF d.after_hours = None THEN None ELSE Some(now + d.after_hours[1]))]_vars

\* An inbound text message has just been handled for a conversation.
InboundHandled ==
    /\ last' # last
    /\ last'.op = "inbound"
    /\ last'.conv # 0

\* C28: handling an inbound text message first inserts an incoming Message
\* with status delivered and sets the conversation to needs_response (the
\* status the decision component is then called with, read as pending), and
\* then applies the decision: once handling completes without a store
\* failure, the conversation's status is the status returned by the decision
\* component (pending, promised, escalated or closed), never needs_response.
C28_DecisionStatusApplied ==
    [][InboundHandled =>
        LET c == last'.conv
            m == messages'[Len(messages')]
        IN  /\ Len(messages') = Len(messages) + 1
            /\ m.direction = "incoming" /\ m.status = "delivered"
            /\ m.conversation_id = c /\ m.content = last'.item.body
            /\ conversations'[c].last_message_at = Some(now)
            /\ last'.last_status = StatusMap("needs_response")
            /\ last'.decision # None
            /\ conversations'[c].status = last'.decision[1].new_status
            /\ conversations'[c].status \in {"pending", "promised", "escalated", "closed"}]_vars

\* C28 witness: an inbound message for the approved conversation 1 was
\* stored and decided "escalate": the conversation is escalated.
C28_Witness ==
    /\ last.op = "inbound"
    /\ last.conv = 1
    /\ last.decision = Some(Decision("escalate", None, "escalated"))
    /\ Len(messages) = 3
    /\ messages[3].direction = "incoming"
    /\ messages[3].status = "delivered"
    /\ conversations[1].status = "escalated"
    /\ conversations[1].last_message_at = Some(now)

\* C39: an inbound message for a conversation whose stored status is
\* promised, escalated or closed has the decision called with that status
\* as last_status: the status before this message was recorded.
C39_DecisionSeesStoredStatus ==
    [][(InboundHandled /\ last'.conv \in DOMAIN conversations) =>
          (conversations[last'.conv].status \in {"promised", "escalated", "closed"} =>
              last'.last_status = conversations[last'.conv].status)]_vars

\* C29: the active-conversation lookup used for inbound messages never
\* returns a closed conversation: when the only conversations of the sender
\* are closed, an inbound message creates a new conversation, and the closed
\* conversation's status and timestamps are left unchanged.
C29_ClosedNotReused ==
    [][InboundHandled =>
        /\ last'.conv \in DOMAIN conversations =>
               conversations[last'.conv].status # "closed"
        /\ \A c \in DOMAIN conversations :
               conversations[c].status = "closed" => conversations'[c] = conversations[c]]_vars

\* A failed receipt whose id matches a stored message has just been handled.
FailedReceiptHandled ==
    /\ last' # last
    /\ last'.op = "status"
    /\ last'.item.status = "failed"
    /\ \E i \in DOMAIN messages : messages[i].whatsapp_message_id = last'.item.id

\* The receipt's error as the claim reads it: its code, and its title or,
\* without a title, its message.
C9_ErrorStored(m, errors) ==
    errors # <<>> =>
        LET e == errors[1]
        IN  /\ e.code # None => m.error_code = ToString(e.code[1])
            /\ e.title \notin {NULL, ""} => m.error_message = e.title
            /\ (e.title \in {NULL, ""} /\ e.message # NULL) => m.error_message = e.message

\* C9: a failed receipt for the id of a stored message sets that message to
\* failed with failed_at and the receipt's error code and message, and moves
\* exactly the nudges of the message's conversation that are in status sent
\* to failed; every other nudge and every other message is unchanged.
C9_FailedReceiptCascades ==
    [][FailedReceiptHandled =>
        /\ DOMAIN messages' = DOMAIN messages
        /\ DOMAIN nudges' = DOMAIN nudges
        /\ \A i \in DOMAIN messages :
             IF messages[i].whatsapp_message_id = last'.item.id
             THEN /\ messages'[i].status = "failed"
                  /\ messages'[i].failed_at = Some(now)
                  /\ C9_ErrorStored(messages'[i], last'.item.errors)
                  /\ \A n \in DOMAIN nudges :
                       IF /\ nudges[n].conversation_id = messages[i].conversation_id
                          /\ nudges[n].status = "sent"
                       THEN nudges'[n] = [nudges[n] EXCEPT !.status = "failed"]
                       ELSE nudges'[n] = nudges[n]
             ELSE messages'[i] = messages[i]]_vars

\* C9 witness: the receipt carried an error, the message holds its code, a
\* sent nudge of the conversation became failed, an approved one of the same
\* conversation and the sent one of the other conversation stayed.
C9_Witness ==
    /\ last.op = "status"
    /\ last.item = Receipt("wamid.1", "failed", <<ReceiptError(Some(131026), "T", "M")>>)
    /\ messages[1].status = "failed"
    /\ messages[1].error_code = "131026"
    /\ nudges[1].status = "failed"
    /\ nudges[2].status = "approved"
    /\ nudges[3].status = "sent"

RetryAnswered ==
    /\ last' # last
    /\ last'.op = "retry_message"
    /\ last'.id \in DOMAIN messages
    /\ last'.before.status = "failed"

\* The contact of the message has a phone number and the account has an
\* integration with its access token and phone number id.
CanDispatch(row) ==
    /\ row.contact_id # 0
    /\ Truthy(contacts[row.contact_id].phone_number)
    /\ integration # NoRow
    /\ Truthy(integration.access_token)
    /\ Truthy(integration.phone_number_id)

StoredRetryCount(row) == IF row.retry_count = None THEN 0 ELSE row.retry_count[1]
StoredMaxRetries(row) == IF row.max_retries = None THEN 3 ELSE row.max_retries[1]

\* C20: in every reachable state each message has retry_count <= max_retries,
\* for every stored max_retries value, 0 included, and the can_retry flag
\* reported for a failed message equals retry_count < max_retries of that
\* message.
C20_RetryBounded ==
    /\ \A i \in DOMAIN messages :
          StoredRetryCount(messages[i]) <= StoredMaxRetries(messages[i])
    /\ (last.op = "retry_message" /\ last.can_retry # None) =>
          last.can_retry[1] = (StoredRetryCount(messages[last.id])
                                 < StoredMaxRetries(messages[last.id]))

\* A retry has just come back from its send.
RetrySendReturned ==
    /\ last' # last
    /\ last'.op = "retry_message"
    /\ pc["retry"] = "await"

\* C21: a retry acts on the same Message record and never inserts a row: a
\* successful retry sets status sent, stores the new provider message id and
\* clears error_code, error_message and failed_at; a failed retry leaves
\* status failed and keeps the error fields non-empty; the number of Message
\* rows is unchanged by any retry.
C21_RetrySameRecord ==
    [][(last' # last /\ last'.op = "retry_message") =>
        /\ Len(messages') = Len(messages)
        /\ \A i \in DOMAIN messages : i # last'.id => messages'[i] = messages[i]
        /\ RetrySendReturned =>
              LET m == messages'[last'.id]
              IN  IF held["retry"].ok
                  THEN /\ m.status = "sent"
                       /\ m.whatsapp_message_id = held["retry"].result[1].message_id
                       /\ m.error_code = NULL
                       /\ m.error_message = NULL
                       /\ m.failed_at = None
                  ELSE /\ m.status = "failed"
                       /\ m.error_code \notin {NULL, ""}
                       /\ m.error_message \notin {NULL, ""}
                       /\ m.failed_at # None]_vars

\* C36: with retry requests for the same failed message running at once,
\* the sends made for it never exceed max_retries and, no request being
\* under way, its retry_count equals the number of retry sends made.
C36_ConcurrentRetriesCounted ==
    /\ sends[1] <= StoredMaxRetries(messages[1])
    /\ (pc["retry"] = "idle" /\ pc["retry2"] = "idle") =>
          StoredRetryCount(messages[1]) = sends[1]

====
